---- MODULE Spec2Model ----
(***************************************************************************)
(* Spatial disaggregation of the IPCC 2022 sectoral emission totals of     *)
(* Uzbekistan onto a raster grid (polygon_masked_spatial_ghg_analysis.py   *)
(* and its enhanced / fixed / country-wide variants).                      *)
(*                                                                         *)
(* A raster is a function from grid cells to exact rationals together      *)
(* with the set of cells where it carries data (the Earth Engine mask).    *)
(* Rationals are records [n, d] in lowest terms with d > 0, so that a      *)
(* mask-sum can be compared with an inventory total exactly.               *)
(***************************************************************************)
EXTENDS Integers, Sequences, FiniteSets, TLC

\* Number of grid cells of the export region. The last cell lies outside
\* the country polygon, the others inside.
NCells == 3

\* Largest number of rows of the cleaned sectoral emission table.
MaxRows == 2

Cells == 1..NCells
Polygon == 1..(NCells - 1)
Bounds == Cells

Gases == <<"CO2", "CH4", "N2O">>
GasSet == {"CO2", "CH4", "N2O"}
SectorTypes == {"Energy Industries", "Transport", "Agriculture", "Manufacturing", "Residential"}

\* Emission totals (Gg CO2-eq) a row of the table may carry.
EmissionTotals == {0, 2}


----------------------------------------------------------------------------
\* Exact rational arithmetic.

Abs(x) == IF x < 0 THEN -x ELSE x

RECURSIVE GCD(_, _)
GCD(a, b) == IF b = 0 THEN a ELSE GCD(b, a % b)

Q(n, d) ==
    LET s == IF d < 0 THEN -1 ELSE 1
        g == GCD(Abs(n), Abs(d))
    IN  [n |-> (s * n) \div g, d |-> (s * d) \div g]

QInt(k) == [n |-> k, d |-> 1]
\* Sums are formed over the least common denominator and products after
\* cross-cancelling, which keeps the intermediate integers small.
QAdd(a, b) ==
    IF a.n = 0 THEN b
    ELSE IF b.n = 0 THEN a
    ELSE IF a.d = b.d THEN Q(a.n + b.n, a.d)
    ELSE LET g == GCD(a.d, b.d)
         IN  Q(a.n * (b.d \div g) + b.n * (a.d \div g), (a.d \div g) * b.d)
QSub(a, b) == QAdd(a, [n |-> -b.n, d |-> b.d])
QMul(a, b) ==
    IF a.n = 0 \/ b.n = 0 THEN QInt(0)
    ELSE IF a.d = 1 /\ b.d = 1 THEN QInt(a.n * b.n)
    ELSE LET g1 == GCD(Abs(a.n), b.d)
             g2 == GCD(Abs(b.n), a.d)
         IN  [n |-> (a.n \div g1) * (b.n \div g2), d |-> (a.d \div g2) * (b.d \div g1)]
QLe(a, b) == a.n * b.d <= b.n * a.d
QLt(a, b) == a.n * b.d < b.n * a.d
QMax(a, b) == IF QLe(a, b) THEN b ELSE a
QMin(a, b) == IF QLe(a, b) THEN a ELSE b
QZero == QInt(0)
QOne == QInt(1)

\* ee.Number.divide / ee.Image.divide: "returning 0 for division by 0".
EEDivide(a, b) == IF b.n = 0 THEN QZero ELSE Q(a.n * b.d, a.d * b.n)

----------------------------------------------------------------------------
\* Rasters (ee.Image with one band).

Constant(q) == [v |-> [c \in Cells |-> q], valid |-> Cells]
Clip(img, region) ==
    [v |-> [c \in Cells |-> IF c \in img.valid \cap region THEN img.v[c] ELSE QZero],
     valid |-> img.valid \cap region]
\* Binary operations between images: the result is masked wherever one of
\* the operands is.
ImgAdd(a, b) ==
    [v |-> [c \in Cells |-> IF c \in a.valid \cap b.valid THEN QAdd(a.v[c], b.v[c]) ELSE QZero],
     valid |-> a.valid \cap b.valid]
ImgSubtract(a, b) ==
    [v |-> [c \in Cells |-> IF c \in a.valid \cap b.valid THEN QSub(a.v[c], b.v[c]) ELSE QZero],
     valid |-> a.valid \cap b.valid]
ImgDivideBy(a, b) ==
    [v |-> [c \in Cells |-> IF c \in a.valid \cap b.valid THEN EEDivide(a.v[c], b.v[c]) ELSE QZero],
     valid |-> a.valid \cap b.valid]
ImgMultiply(img, q) ==
    [v |-> [c \in Cells |-> IF c \in img.valid THEN QMul(img.v[c], q) ELSE QZero],
     valid |-> img.valid]
ImgDivide(img, q) ==
    [v |-> [c \in Cells |-> IF c \in img.valid THEN EEDivide(img.v[c], q) ELSE QZero],
     valid |-> img.valid]
ImgMax(img, q) ==
    [v |-> [c \in Cells |-> IF c \in img.valid THEN QMax(img.v[c], q) ELSE QZero],
     valid |-> img.valid]
Unmask(img) == [v |-> img.v, valid |-> Cells]

\* The Python None where an image is expected.
NoImage == [v |-> <<>>, valid |-> {}]

RECURSIVE SumCells(_, _)
SumCells(img, S) ==
    IF S = {} THEN QZero
    ELSE LET c == CHOOSE x \in S : TRUE
         IN  QAdd(img.v[c], SumCells(img, S \ {c}))

\* reduceRegion(ee.Reducer.sum(), geometry): sum of the unmasked cells of
\* the region.
ReduceSum(img, region) == SumCells(img, img.valid \cap region)

----------------------------------------------------------------------------
\* Mass-balance helpers of the polygon-masked variant.

\* _sum_over_polygon
SumOverPolygon(img) == ReduceSum(img, Polygon)

\* _scale_to_total: the quotient is built first, the guard replaces it after.
ScaleFactor(img, target_total) ==
    LET src_sum == SumOverPolygon(img)
        scale == EEDivide(target_total, src_sum)
    IN  IF QLe(src_sum, QZero) THEN QZero ELSE scale
ScaleToTotal(img, target_total) == ImgMultiply(img, ScaleFactor(img, target_total))
\* The divide of _scale_to_total is issued with a zero divisor.
ScaleDividesByZero(img) == SumOverPolygon(img).n = 0

----------------------------------------------------------------------------
\* Sector allocator.

W(tenths) == Q(tenths, 10)

\* sector_weights of _create_polygon_masked_allocation, in dict order.
PolygonSectorWeights ==
    [s \in SectorTypes |->
        CASE s = "Energy Industries" ->
                <<<<"population", W(2)>>, <<"urban_composite", W(4)>>, <<"industrial_composite", W(4)>>>>
          [] s = "Transport" ->
                <<<<"population", W(3)>>, <<"urban_composite", W(5)>>, <<"city_proximity", W(2)>>>>
          [] s = "Agriculture" ->
                <<<<"population", W(1)>>, <<"agricultural_composite", W(8)>>, <<"urban_composite", W(-1)>>>>
          [] s = "Manufacturing" ->
                <<<<"population", W(1)>>, <<"urban_composite", W(3)>>, <<"industrial_composite", W(6)>>>>
          [] s = "Residential" ->
                <<<<"population", W(7)>>, <<"urban_composite", W(3)>>, <<"city_proximity", W(0)>>>>]

\* sector_weights of _create_enhanced_allocation.
EnhancedSectorWeights ==
    [s \in SectorTypes |->
        CASE s = "Energy Industries" ->
                <<<<"population", W(2)>>, <<"urban_composite", W(4)>>, <<"industrial_composite", W(4)>>>>
          [] s = "Transport" ->
                <<<<"population", W(3)>>, <<"urban_composite", W(5)>>, <<"industrial_composite", W(2)>>>>
          [] s = "Agriculture" ->
                <<<<"population", W(1)>>, <<"agricultural_composite", W(8)>>, <<"urban_composite", W(-1)>>>>
          [] s = "Manufacturing" ->
                <<<<"population", W(1)>>, <<"urban_composite", W(3)>>, <<"industrial_composite", W(6)>>>>
          [] s = "Residential" ->
                <<<<"population", W(7)>>, <<"urban_composite", W(3)>>, <<"industrial_composite", W(0)>>>>]

\* sector_weights of _create_simple_allocation.
FixedSectorWeights ==
    [s \in SectorTypes |->
        CASE s = "Energy Industries" ->
                <<<<"population", W(3)>>, <<"urban", W(4)>>, <<"nightlights", W(3)>>>>
          [] s = "Transport" ->
                <<<<"population", W(4)>>, <<"urban", W(5)>>, <<"nightlights", W(1)>>>>
          [] s = "Agriculture" ->
                <<<<"population", W(2)>>, <<"cropland", W(7)>>, <<"urban", W(-1)>>>>
          [] s = "Manufacturing" ->
                <<<<"population", W(2)>>, <<"urban", W(3)>>, <<"nightlights", W(5)>>>>
          [] s = "Residential" ->
                <<<<"population", W(8)>>, <<"urban", W(2)>>, <<"nightlights", W(0)>>>>]

\* sector_weights.get(sector, {'population': 1.0})
WeightsOf(table, sector) ==
    IF sector \in DOMAIN table THEN table[sector] ELSE <<<<"population", W(10)>>>>

\* Mutation of BaseLevel: the allocation starts from zero, without the floor.
BaseLevel_NoFloor(region) == Clip(Constant(QZero), region)

\* The uniform base level every sector allocation starts from.
BaseLevel(region) == Clip(Constant(W(1)), region)

\* Mutation of ApplyWeight: a negative weight adds |weight| * layer instead
\* of |weight| * (1 - layer).
ApplyWeight_NoComplement(alloc, indicator_name, weight, composites, aux) ==
    IF weight.n = 0 THEN alloc
    ELSE IF indicator_name \notin (DOMAIN composites \cup DOMAIN aux) THEN alloc
    ELSE LET indicator_image ==
                 IF indicator_name \in DOMAIN composites
                 THEN composites[indicator_name] ELSE aux[indicator_name]
         IN  ImgAdd(alloc, ImgMultiply(indicator_image,
                                       [n |-> Abs(weight.n), d |-> weight.d]))

\* One pass of the "Apply weights" loop body.
ApplyWeight(alloc, indicator_name, weight, composites, aux) ==
    IF weight.n = 0 THEN alloc
    ELSE IF indicator_name \notin (DOMAIN composites \cup DOMAIN aux) THEN alloc
    ELSE LET indicator_image ==
                 IF indicator_name \in DOMAIN composites
                 THEN composites[indicator_name] ELSE aux[indicator_name]
         IN  IF QLt(QZero, weight)
             THEN ImgAdd(alloc, ImgMultiply(indicator_image, weight))
             ELSE ImgAdd(alloc,
                         ImgMultiply(ImgSubtract(Constant(QOne), indicator_image),
                                     [n |-> Abs(weight.n), d |-> weight.d]))

RECURSIVE ApplyWeights(_, _, _, _, _)
ApplyWeights(alloc, weights, i, composites, aux) ==
    IF i > Len(weights) THEN alloc
    ELSE ApplyWeights(ApplyWeight(alloc, weights[i][1], weights[i][2], composites, aux),
                      weights, i + 1, composites, aux)

\* sector_allocation before it is multiplied by the sector total.
SectorAllocation(weights, region, composites, aux) ==
    Clip(ApplyWeights(BaseLevel(region), weights, 1, composites, aux), region)

----------------------------------------------------------------------------
\* Composite allocation of one gas (_create_polygon_masked_allocation,
\* _create_enhanced_allocation).

RECURSIVE SumRows(_, _)
SumRows(rows, i) ==
    IF i > Len(rows) THEN 0 ELSE rows[i].emissions_gg_co2eq + SumRows(rows, i + 1)

\* self.sectoral_emissions[self.sectoral_emissions['gas_type'] == gas_type]
GasRows(rows, gas_type) == SelectSeq(rows, LAMBDA r : r.gas_type = gas_type)

\* gas_emissions.groupby('sector_type')['emissions_gg_co2eq'].sum()
SectorsOf(rows) == {rows[i].sector_type : i \in DOMAIN rows}
SectorTotal(rows, sector) == SumRows(SelectSeq(rows, LAMBDA r : r.sector_type = sector), 1)

\* sector_allocation.multiply(total_emission) of one sector.
WeightedSector(rows, sector, table, region, composites, aux) ==
    ImgMultiply(SectorAllocation(WeightsOf(table, sector), region, composites, aux),
                QInt(SectorTotal(rows, sector)))

RECURSIVE AddSectors(_, _, _, _, _, _, _)
AddSectors(final, sectors, rows, table, region, composites, aux) ==
    IF sectors = {} THEN final
    ELSE LET s == CHOOSE x \in sectors : TRUE
             rest == sectors \ {s}
         IN  IF SectorTotal(rows, s) <= 0
             THEN AddSectors(final, rest, rows, table, region, composites, aux)
             ELSE AddSectors(ImgAdd(final, WeightedSector(rows, s, table, region, composites, aux)),
                             rest, rows, table, region, composites, aux)

\* final_allocation before the normalisation.
FinalAllocation(rows, table, region, composites, aux) ==
    AddSectors(Clip(Constant(QZero), region), SectorsOf(rows), rows, table, region,
               composites, aux)

\* total_sum: the region sum the allocation is divided by.
TotalSum(rows, table, region, composites, aux) ==
    ReduceSum(FinalAllocation(rows, table, region, composites, aux), region)

\* Mutation of CreateAllocation: the division by total_sum is left out.
CreateAllocation_NoNormalise(rows, table, region, composites, aux) ==
    Clip(FinalAllocation(rows, table, region, composites, aux), region)

\* The returned allocation: final_allocation.divide(total_sum_image).
CreateAllocation(rows, table, region, composites, aux) ==
    Clip(ImgDivide(FinalAllocation(rows, table, region, composites, aux),
                   TotalSum(rows, table, region, composites, aux)),
         region)

\* The part of the returned allocation that stems from one sector.
SectorShare(rows, sector, table, region, composites, aux) ==
    Clip(ImgDivide(WeightedSector(rows, sector, table, region, composites, aux),
                   TotalSum(rows, table, region, composites, aux)),
         region)

----------------------------------------------------------------------------
\* The analysis run: load the inventory, build the layers, allocate every
\* gas, combine, export.

VARIABLES variant, pc, gas_idx, sectoral_emissions, auxiliary_layers,
          composite_indicators, emission_layers, path, combined_map,
          export_tasks, drive_exports, export_info, div_by_zero, call, result

runvars == <<variant, pc, gas_idx, sectoral_emissions, auxiliary_layers,
             composite_indicators, emission_layers, path, combined_map,
             export_tasks, drive_exports, export_info, div_by_zero>>
\* call and result hold the arguments and the outcome of one function
\* applied on its own, outside a run.
fnvars == <<call, result>>
vars == <<runvars, fnvars>>

Variants == {"polygon", "enhanced"}

\* The region every reduction and clip of a variant uses.
RegionOf(v) == IF v = "polygon" THEN Polygon ELSE Bounds
TableOf(v) ==
    CASE v = "polygon" -> PolygonSectorWeights
      [] v = "enhanced" -> EnhancedSectorWeights
      [] v = "fixed" -> FixedSectorWeights

EmptyDict == [k \in {} |-> NoImage]
NoCall == [fn |-> "none"]
NoResult == [fn |-> "none"]

\* The cleaned sectoral table: rows of sector type, gas and total.
SectorRows == [sector_type : SectorTypes, gas_type : GasSet, emissions_gg_co2eq : EmissionTotals]
RECURSIVE SeqsUpTo(_, _)
SeqsUpTo(S, n) ==
    IF n = 0 THEN {<<>>}
    ELSE LET shorter == SeqsUpTo(S, n - 1)
         IN  shorter \cup {Append(q, x) : q \in {t \in shorter : Len(t) = n - 1}, x \in S}
SectorTables == SeqsUpTo(SectorRows, MaxRows)

\* A raster whose odd cells carry a and whose even cells carry b.
Pattern(a, b) == [v |-> [c \in Cells |-> IF c % 2 = 1 THEN a ELSE b], valid |-> Cells]

\* What the layer sources may deliver for the layers the allocation reads.
PopulationLayers == {Pattern(QInt(0), QInt(3))}
ProximityLayers == {Pattern(QOne, Q(1, 2))}
OdiacLayers == {Constant(QZero), Pattern(QInt(-1), QInt(2))}
CompositeNames == {"urban_composite", "agricultural_composite", "industrial_composite"}
CompositeLayer(name) ==
    CASE name = "urban_composite" -> Pattern(QOne, QZero)
      [] name = "agricultural_composite" -> Pattern(QZero, Q(1, 2))
      [] name = "industrial_composite" -> Pattern(Q(1, 2), Q(1, 2))

Init ==
    /\ variant \in Variants
    /\ pc = "load_ipcc"
    /\ gas_idx = 1
    /\ sectoral_emissions = <<>>
    /\ auxiliary_layers = EmptyDict
    /\ composite_indicators = EmptyDict
    /\ emission_layers = EmptyDict
    /\ path = EmptyDict
    /\ combined_map = NoImage
    /\ export_tasks = <<>>
    /\ drive_exports = <<>>
    /\ export_info = EmptyDict
    /\ div_by_zero = {}
    /\ call = NoCall
    /\ result = NoResult

\* load_and_prepare_ipcc_data: self.sectoral_emissions = _prepare_sectoral_data()
LoadIPCC ==
    /\ pc = "load_ipcc"
    /\ \E rows \in SectorTables : sectoral_emissions' = rows
    /\ pc' = "aux_layers"
    /\ UNCHANGED <<variant, gas_idx, auxiliary_layers, composite_indicators,
                   emission_layers, path, combined_map, export_tasks,
                   drive_exports, div_by_zero>>
    /\ UNCHANGED export_info
    /\ UNCHANGED fnvars

\* create_polygon_masked_auxiliary_layers: every layer is clipped to the
\* region; ODIAC is stored only when it could be loaded.
CreateAuxiliaryLayers ==
    /\ pc = "aux_layers"
    /\ \E pop \in PopulationLayers, prox \in ProximityLayers, od \in OdiacLayers \cup {NoImage} :
          LET region == RegionOf(variant)
              base == [k \in {"population", "city_proximity"} |->
                          IF k = "population" THEN Clip(pop, region) ELSE Clip(prox, region)]
          IN  auxiliary_layers' =
                 IF od = NoImage \/ variant # "polygon" THEN base
                 ELSE [k \in DOMAIN base \cup {"odiac_co2"} |->
                          IF k = "odiac_co2" THEN Clip(od, region) ELSE base[k]]
    /\ pc' = "composites"
    /\ UNCHANGED <<variant, gas_idx, sectoral_emissions, composite_indicators,
                   emission_layers, path, combined_map, export_tasks,
                   drive_exports, div_by_zero>>
    /\ UNCHANGED export_info
    /\ UNCHANGED fnvars

\* create_polygon_masked_composite_indicators: a composite whose builder
\* failed is left out of the dict.
CreateCompositeIndicators ==
    /\ pc = "composites"
    /\ \E present \in {{}, CompositeNames} :
          composite_indicators' =
              [k \in present |-> Clip(CompositeLayer(k), RegionOf(variant))]
    /\ pc' = "gas"
    /\ UNCHANGED <<variant, gas_idx, sectoral_emissions, auxiliary_layers,
                   emission_layers, path, combined_map, export_tasks,
                   drive_exports, div_by_zero>>
    /\ UNCHANGED export_info
    /\ UNCHANGED fnvars

Put(dict, key, value) ==
    [k \in DOMAIN dict \cup {key} |-> IF k = key THEN value ELSE dict[k]]

\* The inventory raster preferred for a gas.
InventoryKey(gas_type) ==
    CASE gas_type = "CO2" -> "odiac_co2"
      [] gas_type = "CH4" -> "edgar_ch4"
      [] gas_type = "N2O" -> "edgar_n2o"

\* float(gas_emissions['emissions_gg_co2eq'].sum())
TotalEmission(gas_type) == SumRows(GasRows(sectoral_emissions, gas_type), 1)

\* Mutation of InvPos: the prior is not clamped at zero.
InvPos_NoClamp(inv_img) == Clip(inv_img, Polygon)

\* inv_pos = inv_img.max(0).clip(self.uzbekistan_polygon)
InvPos(inv_img) == Clip(ImgMax(inv_img, QZero), Polygon)

\* The emission image of the inventory branch.
InventoryEmission(inv_img, total_emission) ==
    ScaleToTotal(InvPos(inv_img), QInt(total_emission))

\* The emission image of the composite branch.
CompositeEmission(v, rows, composites, aux, total_emission) ==
    LET allocation_image == CreateAllocation(rows, TableOf(v), RegionOf(v), composites, aux)
        scaled == ImgMultiply(allocation_image, QInt(total_emission))
    IN  IF v = "polygon" THEN Clip(scaled, Polygon) ELSE scaled

\* Mutation of ExportImage: the image is exported as it is, still masked.
ExportImage_NoUnmask(v, emission_image) == emission_image

\* _export_polygon_masked_emission_map / _export_emission_map: the image
\* handed to Export.image.toDrive and the export_info appended.
ExportImage(v, emission_image) == IF v = "polygon" THEN Unmask(emission_image) ELSE emission_image
ExportInfo(gas_type, total_emission, task_id) ==
    [gas_type |-> gas_type,
     total_emissions |-> total_emission,
     task_id |-> task_id,
     task_status |-> "STARTED"]

\* Mutation of ExportEmissionMap: the task is started without its
\* export_info being appended to self.export_tasks.
ExportEmissionMap_NoRecord(emission_image, gas_type, total_emission) ==
    LET task_id == Len(drive_exports) + 1
    IN  /\ drive_exports' = Append(drive_exports,
                                   [description |-> gas_type,
                                    id |-> task_id,
                                    image |-> ExportImage(variant, emission_image)])
        /\ export_info' = Put(export_info, gas_type,
                              ExportInfo(gas_type, total_emission, task_id))
        /\ UNCHANGED export_tasks

ExportEmissionMap(emission_image, gas_type, total_emission) ==
    LET task_id == Len(drive_exports) + 1
    IN  /\ drive_exports' = Append(drive_exports,
                                   [description |-> gas_type,
                                    id |-> task_id,
                                    image |-> ExportImage(variant, emission_image)])
        /\ export_info' = Put(export_info, gas_type,
                              ExportInfo(gas_type, total_emission, task_id))
        /\ export_tasks' = Append(export_tasks,
                                  ExportInfo(gas_type, total_emission, task_id))

CurrentGas == Gases[gas_idx]

\* len(gas_emissions) == 0: continue
SkipGas ==
    /\ pc = "gas"
    /\ gas_idx <= Len(Gases)
    /\ GasRows(sectoral_emissions, CurrentGas) = <<>>
    /\ gas_idx' = gas_idx + 1
    /\ UNCHANGED <<variant, pc, sectoral_emissions, auxiliary_layers, composite_indicators,
                   emission_layers, path, combined_map, export_tasks, drive_exports,
                   div_by_zero>>
    /\ UNCHANGED export_info
    /\ UNCHANGED fnvars

HasInventory(gas_type) ==
    variant = "polygon" /\ InventoryKey(gas_type) \in DOMAIN auxiliary_layers

\* The "if inv_img:" branch of the gas loop.
AllocateFromInventory ==
    /\ pc = "gas"
    /\ gas_idx <= Len(Gases)
    /\ GasRows(sectoral_emissions, CurrentGas) # <<>>
    /\ HasInventory(CurrentGas)
    /\ LET total_emission == TotalEmission(CurrentGas)
           inv_img == auxiliary_layers[InventoryKey(CurrentGas)]
           emission_image == InventoryEmission(inv_img, total_emission)
       IN  /\ emission_layers' = Put(emission_layers, CurrentGas, emission_image)
           /\ ExportEmissionMap(emission_image, CurrentGas, total_emission)
           /\ div_by_zero' = IF ScaleDividesByZero(InvPos(inv_img))
                            THEN div_by_zero \cup {CurrentGas} ELSE div_by_zero
    /\ path' = Put(path, CurrentGas, "inventory")
    /\ gas_idx' = gas_idx + 1
    /\ UNCHANGED <<variant, pc, sectoral_emissions, auxiliary_layers, composite_indicators,
                   combined_map>>
    /\ UNCHANGED fnvars

\* Mutation of AllocateFromComposite: an indicator named in the weights
\* of a sector but absent from both dicts raises, and the gas gets no
\* raster.
AllocateFromComposite_MissingRaises ==
    /\ pc = "gas"
    /\ gas_idx <= Len(Gases)
    /\ GasRows(sectoral_emissions, CurrentGas) # <<>>
    /\ ~HasInventory(CurrentGas)
    /\ IF CompositeNames \subseteq DOMAIN composite_indicators
       THEN LET total_emission == TotalEmission(CurrentGas)
                rows == GasRows(sectoral_emissions, CurrentGas)
                emission_image == CompositeEmission(variant, rows, composite_indicators,
                                                    auxiliary_layers, total_emission)
            IN  /\ emission_layers' = Put(emission_layers, CurrentGas, emission_image)
                /\ ExportEmissionMap(emission_image, CurrentGas, total_emission)
                /\ path' = Put(path, CurrentGas, "composite")
       ELSE UNCHANGED <<emission_layers, export_tasks, drive_exports, export_info, path>>
    /\ gas_idx' = gas_idx + 1
    /\ UNCHANGED <<variant, pc, sectoral_emissions, auxiliary_layers, composite_indicators,
                   combined_map, div_by_zero>>
    /\ UNCHANGED fnvars

\* The fallback branch of the gas loop: composite allocation.
AllocateFromComposite ==
    /\ pc = "gas"
    /\ gas_idx <= Len(Gases)
    /\ GasRows(sectoral_emissions, CurrentGas) # <<>>
    /\ ~HasInventory(CurrentGas)
    /\ LET total_emission == TotalEmission(CurrentGas)
           rows == GasRows(sectoral_emissions, CurrentGas)
           emission_image == CompositeEmission(variant, rows, composite_indicators,
                                               auxiliary_layers, total_emission)
       IN  /\ emission_layers' = Put(emission_layers, CurrentGas, emission_image)
           /\ ExportEmissionMap(emission_image, CurrentGas, total_emission)
           /\ div_by_zero' =
                 IF TotalSum(rows, TableOf(variant), RegionOf(variant),
                             composite_indicators, auxiliary_layers).n = 0
                 THEN div_by_zero \cup {CurrentGas} ELSE div_by_zero
    /\ path' = Put(path, CurrentGas, "composite")
    /\ gas_idx' = gas_idx + 1
    /\ UNCHANGED <<variant, pc, sectoral_emissions, auxiliary_layers, composite_indicators,
                   combined_map>>
    /\ UNCHANGED fnvars

\* gwp_factors of _create_combined_emission_map.
GWP_CO2 == 1
GWP_CH4 == 25
GWP_N2O == 298
GwpFactor(gas_type) ==
    CASE gas_type = "CO2" -> GWP_CO2
      [] gas_type = "CH4" -> GWP_CH4
      [] gas_type = "N2O" -> GWP_N2O

\* Mutation of CombineFactor: no variant weights the gases.
CombineFactor_NoGwp(v, gas_type) == 1

\* The multiplier a variant applies to a gas layer before adding it.
CombineFactor(v, gas_type) == IF v = "polygon" THEN 1 ELSE GwpFactor(gas_type)

RECURSIVE AddLayers(_, _, _, _)
AddLayers(total, layers, keys, v) ==
    IF keys = {} THEN total
    ELSE LET g == CHOOSE x \in keys : TRUE
         IN  AddLayers(ImgAdd(total, ImgMultiply(layers[g], QInt(CombineFactor(v, g)))),
                       layers, keys \ {g}, v)

\* _create_polygon_masked_combined_emission_map / _create_combined_emission_map
CombinedEmissionMap(v, layers) ==
    AddLayers(Clip(Constant(QZero), RegionOf(v)), layers, DOMAIN layers, v)

RECURSIVE SumTotals(_)
SumTotals(keys) ==
    IF keys = {} THEN 0
    ELSE LET g == CHOOSE x \in keys : TRUE
         IN  TotalEmission(g) + SumTotals(keys \ {g})

\* After the gas loop: the combined map is built and exported when at least
\* one gas layer exists.
CreateCombined ==
    /\ pc = "gas"
    /\ gas_idx > Len(Gases)
    /\ emission_layers # EmptyDict
    /\ combined_map' = CombinedEmissionMap(variant, emission_layers)
    /\ ExportEmissionMap(combined_map', "COMBINED", SumTotals(DOMAIN emission_layers))
    /\ pc' = "done"
    /\ UNCHANGED <<variant, gas_idx, sectoral_emissions, auxiliary_layers,
                   composite_indicators, emission_layers, path, div_by_zero>>
    /\ UNCHANGED fnvars

\* After the gas loop with no gas layer: nothing is combined.
FinishWithoutLayers ==
    /\ pc = "gas"
    /\ gas_idx > Len(Gases)
    /\ emission_layers = EmptyDict
    /\ pc' = "done"
    /\ UNCHANGED <<variant, gas_idx, sectoral_emissions, auxiliary_layers,
                   composite_indicators, emission_layers, path, combined_map,
                   export_tasks, drive_exports, div_by_zero>>
    /\ UNCHANGED export_info
    /\ UNCHANGED fnvars

Next ==
    \/ LoadIPCC
    \/ CreateAuxiliaryLayers
    \/ CreateCompositeIndicators
    \/ SkipGas
    \/ AllocateFromInventory
    \/ AllocateFromComposite
    \/ CreateCombined
    \/ FinishWithoutLayers

Spec == Init /\ [][Next]_vars

----------------------------------------------------------------------------
\* Properties of the analysis run.

MaskSum(img) == ReduceSum(img, RegionOf(variant))
AllZero(img) == \A c \in Cells : img.v[c] = QZero
Stored(g) == g \in DOMAIN emission_layers

\* The clamped inventory prior of a gas and its mask-sum.
ClampedPrior(g, c) == QMax(auxiliary_layers[InventoryKey(g)].v[c], QZero)
RECURSIVE PriorSum(_, _)
PriorSum(g, S) ==
    IF S = {} THEN QZero
    ELSE LET c == CHOOSE x \in S : TRUE
         IN  QAdd(ClampedPrior(g, c), PriorSum(g, S \ {c}))
DegeneratePrior(g) == path[g] = "inventory" /\ PriorSum(g, Polygon).n = 0

\* C1 as stated: every stored gas raster has mask-sum equal to the sum of
\* emissions_gg_co2eq over the rows of that gas, on the inventory path and
\* on the composite path.
C1_MassConservation ==
    \A g \in GasSet : Stored(g) => MaskSum(emission_layers[g]) = QInt(TotalEmission(g))

\* C1 amended: the mask-sum equals the gas total on the composite path and on
\* the inventory path whenever the clamped prior has a positive mask-sum; a
\* prior that sums to zero yields an all-zero raster instead.
C1_MassConservationAmended ==
    \A g \in GasSet : Stored(g) =>
        IF DegeneratePrior(g)
        THEN AllZero(emission_layers[g])
        ELSE MaskSum(emission_layers[g]) = QInt(TotalEmission(g))

\* C1 witness: one run stored a gas on each path with a positive total, and
\* both mask-sums equal their totals.
C1_Witness ==
    /\ Stored("CO2") /\ path["CO2"] = "inventory" /\ ~DegeneratePrior("CO2")
    /\ TotalEmission("CO2") > 0
    /\ MaskSum(emission_layers["CO2"]) = QInt(TotalEmission("CO2"))
    /\ Stored("CH4") /\ path["CH4"] = "composite" /\ TotalEmission("CH4") > 0
    /\ MaskSum(emission_layers["CH4"]) = QInt(TotalEmission("CH4"))

\* The rows of a gas and the allocation inputs of the run.
RowsOf(g) == GasRows(sectoral_emissions, g)
SectorPart(g, s) ==
    ImgMultiply(SectorShare(RowsOf(g), s, TableOf(variant), RegionOf(variant),
                            composite_indicators, auxiliary_layers),
                QInt(TotalEmission(g)))

\* C2 as stated: on the composite path the part of a gas raster contributed
\* by a sector has mask-sum equal to that sector's own total.
C2_SectorMassBalance ==
    \A g \in GasSet : (Stored(g) /\ path[g] = "composite") =>
        \A s \in SectorsOf(RowsOf(g)) :
            MaskSum(SectorPart(g, s)) = QInt(SectorTotal(RowsOf(g), s))

\* The multiplier the claim C3 gives a gas, and one cell of the sum it
\* describes.
GwpTerm(factor, g, c) ==
    IF Stored(g) THEN QMul(QInt(factor), emission_layers[g].v[c]) ELSE QZero
GwpTotal(factor, g) == IF Stored(g) THEN factor * TotalEmission(g) ELSE 0

C10_InventoryPrior ==
    \A g \in GasSet : (Stored(g) /\ HasInventory(g)) =>
        /\ path[g] = "inventory"
        /\ \A c \in Polygon :
              QMul(emission_layers[g].v[c], PriorSum(g, Polygon)) =
                  QMul(ClampedPrior(g, c), QInt(TotalEmission(g)))
        /\ MaskSum(emission_layers[g]) = QInt(TotalEmission(g))

\* C10 amended: as stated, except that the gas total is preserved only when
\* the clamped prior has a positive mask-sum; a prior summing to zero gives
\* an all-zero raster.
C10_InventoryPriorAmended ==
    \A g \in GasSet : (Stored(g) /\ HasInventory(g)) =>
        /\ path[g] = "inventory"
        /\ \A c \in Polygon :
              QMul(emission_layers[g].v[c], PriorSum(g, Polygon)) =
                  QMul(ClampedPrior(g, c), QInt(TotalEmission(g)))
        /\ IF PriorSum(g, Polygon).n = 0
           THEN AllZero(emission_layers[g])
           ELSE MaskSum(emission_layers[g]) = QInt(TotalEmission(g))

\* C10 witness: CO2 was allocated from an ODIAC prior with a negative cell
\* and a positive mask-sum, while composites were available, and the raster
\* sums to the CO2 total.
C10_Witness ==
    /\ Stored("CO2") /\ path["CO2"] = "inventory"
    /\ composite_indicators # EmptyDict
    /\ \E c \in Polygon : auxiliary_layers["odiac_co2"].v[c].n < 0
    /\ TotalEmission("CO2") > 0
    /\ MaskSum(emission_layers["CO2"]) = QInt(TotalEmission("CO2"))

----------------------------------------------------------------------------
\* Single functions applied on their own to inputs drawn from bounded sets.

RunIdle ==
    /\ variant = "polygon"
    /\ pc = "idle"
    /\ gas_idx = 1
    /\ sectoral_emissions = <<>>
    /\ auxiliary_layers = EmptyDict
    /\ composite_indicators = EmptyDict
    /\ emission_layers = EmptyDict
    /\ path = EmptyDict
    /\ combined_map = NoImage
    /\ export_tasks = <<>>
    /\ drive_exports = <<>>
    /\ export_info = EmptyDict
    /\ div_by_zero = {}

\* reduceRegion(ee.Reducer.percentile([2, 98]), polygon): on a grid of a
\* handful of cells the 2nd and the 98th percentile are the smallest and the
\* largest value over the polygon.
RECURSIVE MinOver(_, _)
MinOver(img, S) ==
    LET c == CHOOSE x \in S : TRUE
    IN  IF S = {c} THEN img.v[c] ELSE QMin(img.v[c], MinOver(img, S \ {c}))
RECURSIVE MaxOver(_, _)
MaxOver(img, S) ==
    LET c == CHOOSE x \in S : TRUE
    IN  IF S = {c} THEN img.v[c] ELSE QMax(img.v[c], MaxOver(img, S \ {c}))
PercentileLow(img) == MinOver(img, img.valid \cap Polygon)
PercentileHigh(img) == MaxOver(img, img.valid \cap Polygon)

ImgClamp(img, lo, hi) ==
    [v |-> [c \in Cells |-> IF c \in img.valid THEN QMin(QMax(img.v[c], lo), hi) ELSE QZero],
     valid |-> img.valid]

\* Mutation of RobustUnitScale: the shifted image is divided by hi instead
\* of hi - lo.
RobustUnitScale_DivideByHigh(img) ==
    ImgClamp(ImgDivide(ImgSubtract(img, Constant(PercentileLow(img))), PercentileHigh(img)),
             QZero, QOne)

\* robust_unit_scale: subtract(lo).divide(hi.subtract(lo)).clamp(0, 1)
RobustUnitScale(img) ==
    LET lo == PercentileLow(img)
        hi == PercentileHigh(img)
    IN  ImgClamp(ImgDivide(ImgSubtract(img, Constant(lo)), QSub(hi, lo)), QZero, QOne)
\* The divide of robust_unit_scale is issued with a zero divisor.
RobustDividesByZero(img) == QSub(PercentileHigh(img), PercentileLow(img)).n = 0

\* Cell values of the rasters the two scaling functions are applied to.
ScaleInputValues == {QInt(-1), QZero, Q(1, 2), QInt(2)}
ScaleInputs == {[v |-> f, valid |-> Cells] : f \in [Cells -> ScaleInputValues]}

InitScale ==
    /\ RunIdle
    /\ \/ \E img \in ScaleInputs, t \in EmissionTotals :
             call = [fn |-> "_scale_to_total", img |-> Clip(img, Polygon), target_total |-> t]
       \/ \E img \in ScaleInputs :
             call = [fn |-> "robust_unit_scale", img |-> img]
    /\ result = NoResult

ApplyScaleToTotal ==
    /\ call.fn = "_scale_to_total"
    /\ result = NoResult
    /\ result' = [fn |-> call.fn,
                  image |-> ScaleToTotal(call.img, QInt(call.target_total)),
                  divided_by_zero |-> ScaleDividesByZero(call.img)]
    /\ UNCHANGED <<runvars, call>>

ApplyRobustUnitScale ==
    /\ call.fn = "robust_unit_scale"
    /\ result = NoResult
    /\ result' = [fn |-> call.fn,
                  image |-> RobustUnitScale(call.img),
                  divided_by_zero |-> RobustDividesByZero(call.img)]
    /\ UNCHANGED <<runvars, call>>

\* robust_unit_scale applied to the image a first application returned.
ApplyRobustUnitScaleAgain ==
    /\ call.fn = "robust_unit_scale"
    /\ result.fn = "robust_unit_scale"
    /\ result' = [fn |-> "robust_unit_scale twice",
                  once |-> result.image,
                  image |-> RobustUnitScale(result.image)]
    /\ UNCHANGED <<runvars, call>>

NextScale == ApplyScaleToTotal \/ ApplyRobustUnitScale \/ ApplyRobustUnitScaleAgain

SpecScale == InitScale /\ [][NextScale]_vars

\* C4 as stated: mass-balancing a raster whose mask-sum is zero or negative
\* returns an all-zero raster and never divides by the zero source sum.
C4_ZeroSumSafety ==
    (result.fn = "_scale_to_total" /\ QLe(SumOverPolygon(call.img), QZero)) =>
        (AllZero(result.image) /\ ~result.divided_by_zero)

\* C5 as stated: robust_unit_scale of a layer whose low and high percentile
\* coincide returns an all-zero raster without dividing by zero.
C5_DegenerateLayerSafety ==
    (result.fn = "robust_unit_scale" /\ PercentileHigh(call.img) = PercentileLow(call.img)) =>
        (AllZero(result.image) /\ ~result.divided_by_zero)

----------------------------------------------------------------------------
\* The sector allocator applied on its own.

AllocVariants == {"polygon", "enhanced", "fixed"}

\* The two extreme values a layer takes: raw population counts, binary land
\* cover, radiance, and composites and proximity within their unit range.
LayerValues(name) ==
    CASE name = "population" -> {QZero, QInt(3)}
      [] name = "nightlights" -> {QZero, QInt(2)}
      [] name = "city_proximity" -> {Q(1, 2), QOne}
      [] OTHER -> {QZero, QOne}
LayerRasters(name) == {[v |-> f, valid |-> Cells] : f \in [Cells -> LayerValues(name)]}
AnyLayerRaster == UNION {LayerRasters(n) : n \in {"population", "nightlights", "city_proximity", "urban"}}

IndicatorNames(weights) == {weights[i][1] : i \in DOMAIN weights}

\* Every dict over the names whose entries are absent or one of the rasters
\* of that name, clipped to the region.
LayerDicts(names, region) ==
    {[k \in {n \in names : f[n] # NoImage} |-> Clip(f[k], region)] :
        f \in {g \in [names -> AnyLayerRaster \cup {NoImage}] :
                  \A n \in names : g[n] = NoImage \/ g[n] \in LayerRasters(n)}}

Restrict(dict, keys) == [k \in DOMAIN dict \cap keys |-> dict[k]]

InitAlloc ==
    /\ RunIdle
    /\ \E v \in AllocVariants, sector \in SectorTypes :
          \E layers \in LayerDicts(IndicatorNames(TableOf(v)[sector]), RegionOf(v)) :
              call = [fn |-> "sector_allocation", variant |-> v, sector |-> sector,
                      composites |-> IF v = "fixed" THEN EmptyDict
                                     ELSE Restrict(layers, CompositeNames),
                      aux |-> IF v = "fixed" THEN layers
                              ELSE Restrict(layers, DOMAIN layers \ CompositeNames)]
    /\ result = NoResult

ApplySectorAllocation ==
    /\ call.fn = "sector_allocation"
    /\ result = NoResult
    /\ result' = [fn |-> call.fn,
                  image |-> SectorAllocation(WeightsOf(TableOf(call.variant), call.sector),
                                             RegionOf(call.variant), call.composites, call.aux)]
    /\ UNCHANGED <<runvars, call>>

NextAlloc == ApplySectorAllocation

SpecAlloc == InitAlloc /\ [][NextAlloc]_vars

\* The layer an indicator name resolves to in a call, composites first.
CallHas(name) == name \in DOMAIN call.composites \cup DOMAIN call.aux
CallLayer(name) ==
    IF name \in DOMAIN call.composites THEN call.composites[name] ELSE call.aux[name]
CallWeights == WeightsOf(TableOf(call.variant), call.sector)
AbsQ(q) == [n |-> Abs(q.n), d |-> q.d]

\* The term one (indicator, coefficient) pair contributes to a cell.
ExpectedTerm(name, coefficient, c) ==
    IF ~CallHas(name) THEN QZero
    ELSE IF QLt(QZero, coefficient) THEN QMul(coefficient, CallLayer(name).v[c])
    ELSE IF QLt(coefficient, QZero)
         THEN QMul(AbsQ(coefficient), QSub(QOne, CallLayer(name).v[c]))
    ELSE QZero
RECURSIVE ExpectedTerms(_, _)
ExpectedTerms(i, c) ==
    IF i > Len(CallWeights) THEN QZero
    ELSE QAdd(ExpectedTerm(CallWeights[i][1], CallWeights[i][2], c), ExpectedTerms(i + 1, c))

C9_WeightedTerms ==
    result.fn = "sector_allocation" =>
        \A c \in RegionOf(call.variant) :
            result.image.v[c] = QAdd(Q(1, 10), ExpectedTerms(1, c))

\* C9 witness: an Agriculture allocation whose first indicator is missing,
\* whose second is present and whose negative-weight indicator is present
\* and below 1 in some cell, so that the complement term is added there.
C9_Witness ==
    /\ result.fn = "sector_allocation" /\ call.sector = "Agriculture"
    /\ ~CallHas(CallWeights[1][1]) /\ CallHas(CallWeights[2][1]) /\ CallHas(CallWeights[3][1])
    /\ QLt(CallWeights[3][2], QZero)
    /\ \E c \in RegionOf(call.variant) :
          /\ CallLayer(CallWeights[3][1]).v[c] = QZero
          /\ CallLayer(CallWeights[2][1]).v[c] = QOne
          /\ result.image.v[c] = QAdd(Q(1, 10), QAdd(CallWeights[2][2], Q(1, 10)))

----------------------------------------------------------------------------
\* The country-wide variant (country_wide_ghg_analysis.py). It has no
\* polygon: every reduction runs over the rectangle uzbekistan_bounds.

\* spatial_weights of _prepare_sectoral_data, attached to every row by its
\* sector type.
SpatialWeights(sector_type) ==
    CASE sector_type = "Energy Industries" ->
           [urban_weight |-> W(8), population_weight |-> W(7), industrial_weight |-> W(9)]
      [] sector_type = "Transport" ->
           [urban_weight |-> W(9), population_weight |-> W(8), road_weight |-> W(9)]
      [] sector_type = "Agriculture" ->
           [rural_weight |-> W(9), cropland_weight |-> W(8), livestock_weight |-> W(7)]
      [] sector_type = "Manufacturing" ->
           [industrial_weight |-> W(9), urban_weight |-> W(6), population_weight |-> W(5)]
      [] sector_type = "Residential" ->
           [population_weight |-> W(9), urban_weight |-> W(7), rural_weight |-> W(3)]

\* dict.get(key, default)
Get(dict, key, default) == IF key \in DOMAIN dict THEN dict[key] ELSE default

\* ee.Image.log: the natural logarithm, rounded to one decimal, of the
\* values a population layer carries here.
Ln(q) ==
    CASE q = Q(1, 10) -> Q(-23, 10)
      [] q = QOne -> QZero
ImgLog(img) ==
    [v |-> [c \in Cells |-> IF c \in img.valid THEN Ln(img.v[c]) ELSE QZero],
     valid |-> img.valid]

\* image_1 * w_1 + ... + image_n * w_n, the chains of multiply and add.
RECURSIVE WeightedSum(_, _)
WeightedSum(terms, i) ==
    IF i = Len(terms) THEN ImgMultiply(terms[i][1], terms[i][2])
    ELSE ImgAdd(ImgMultiply(terms[i][1], terms[i][2]), WeightedSum(terms, i + 1))

\* One weighted indicator, when the layer is present and not None.
Indicator(aux, key, weight) ==
    IF key \in DOMAIN aux /\ aux[key] # NoImage THEN <<<<aux[key], weight>>>> ELSE <<>>

\* The sum of the indicators found, or the fallback when none was found.
CombineIndicators(indicators, fallback) ==
    IF indicators # <<>> THEN WeightedSum(indicators, 1) ELSE fallback

\* _create_urban_composite
CreateUrbanComposite(aux) ==
    CombineIndicators(
        Indicator(aux, "esa_urban", W(3)) \o Indicator(aux, "modis_urban", W(3))
        \o Indicator(aux, "copernicus_urban", W(2)) \o Indicator(aux, "dw_built", W(2)),
        IF "nightlights" \in DOMAIN aux THEN ImgMultiply(aux["nightlights"], W(1))
        ELSE Constant(W(1)))

\* _create_agricultural_composite
CreateAgriculturalComposite(aux) ==
    CombineIndicators(
        Indicator(aux, "esa_agriculture", W(4)) \o Indicator(aux, "modis_cropland", W(3))
        \o Indicator(aux, "copernicus_cropland", W(2)) \o Indicator(aux, "dw_crops", W(1)),
        Constant(W(3)))

\* distance_factor of _create_industrial_composite
DistanceFactor(aux) ==
    IF "distance_to_cities" \in DOMAIN aux
    THEN ImgMultiply(ImgDivideBy(Constant(QInt(100000)),
                                 ImgAdd(aux["distance_to_cities"], Constant(QInt(1000)))),
                     W(2))
    ELSE Constant(W(2))

\* _create_industrial_composite
CreateIndustrialComposite(aux) ==
    WeightedSum(<< <<Get(aux, "nightlights", Constant(QOne)), W(5)>>,
                   <<CreateUrbanComposite(aux), W(3)>>,
                   <<DistanceFactor(aux), QOne>> >>, 1)

\* transport_base of _create_transport_composite: the logarithm is taken of
\* the population layer as it is.
TransportBase(aux) ==
    IF "population" \in DOMAIN aux
    THEN ImgMultiply(ImgLog(aux["population"]), W(4)) ELSE Constant(W(4))

\* _create_transport_composite
CreateTransportComposite(aux) ==
    WeightedSum(<< <<TransportBase(aux), QOne>>,
                   <<CreateUrbanComposite(aux), W(3)>>,
                   <<Get(aux, "nightlights", Constant(QOne)), W(2)>>,
                   <<Get(aux, "transport_density", Constant(QOne)), W(1)>> >>, 1)

\* _create_rural_composite
CreateRuralComposite(aux) ==
    WeightedSum(<< <<ImgMax(ImgSubtract(Constant(QOne), CreateUrbanComposite(aux)), W(1)),
                     QOne>> >>
                \o Indicator(aux, "esa_grassland", W(2))
                \o Indicator(aux, "esa_forest", W(1)), 1)

\* The weighted sum of _create_allocation_layer before its normalisation.
RawAllocationLayer(sector_type, weights, aux) ==
    CASE sector_type = "Energy Industries" ->
           WeightedSum(<< <<aux["population"], Get(weights, "population_weight", W(3))>>,
                          <<CreateUrbanComposite(aux), Get(weights, "urban_weight", W(4))>>,
                          <<CreateIndustrialComposite(aux), Get(weights, "industrial_weight", W(3))>> >>, 1)
      [] sector_type = "Transport" ->
           WeightedSum(<< <<aux["population"], Get(weights, "population_weight", W(3))>>,
                          <<CreateUrbanComposite(aux), Get(weights, "urban_weight", W(4))>>,
                          <<CreateTransportComposite(aux), Get(weights, "road_weight", W(3))>> >>, 1)
      [] sector_type = "Agriculture" ->
           WeightedSum(<< <<CreateAgriculturalComposite(aux), Get(weights, "cropland_weight", W(6))>>,
                          <<CreateRuralComposite(aux), Get(weights, "rural_weight", W(3))>>,
                          <<Get(aux, "esa_grassland", Constant(W(1))),
                            Get(weights, "livestock_weight", W(1))>> >>, 1)
      [] sector_type = "Manufacturing" ->
           WeightedSum(<< <<CreateIndustrialComposite(aux), Get(weights, "industrial_weight", W(5))>>,
                          <<CreateUrbanComposite(aux), Get(weights, "urban_weight", W(3))>>,
                          <<aux["population"], Get(weights, "population_weight", W(2))>> >>, 1)
      [] OTHER ->
           WeightedSum(<< <<aux["population"], Get(weights, "population_weight", W(7))>>,
                          <<CreateUrbanComposite(aux), W(3)>> >>, 1)

\* The end of _create_allocation_layer: the layer is divided by its sum
\* over the rectangle only when that sum is positive.
NormaliseAllocation(allocation) ==
    IF QLt(QZero, ReduceSum(allocation, Bounds))
    THEN ImgDivide(allocation, ReduceSum(allocation, Bounds))
    ELSE allocation

\* _create_allocation_layer
CreateAllocationLayer(sector_type, weights, aux) ==
    NormaliseAllocation(RawAllocationLayer(sector_type, weights, aux))

\* The emission image of one gas before the final rescaling: the sum over
\* the rows of allocation_layer * sector_emission.
RECURSIVE AddSectorLayers(_, _, _, _)
AddSectorLayers(emission_image, rows, i, aux) ==
    IF i > Len(rows) THEN emission_image
    ELSE AddSectorLayers(
             ImgAdd(emission_image,
                    ImgMultiply(CreateAllocationLayer(rows[i].sector_type,
                                                      SpatialWeights(rows[i].sector_type), aux),
                                QInt(rows[i].emissions_gg_co2eq))),
             rows, i + 1, aux)
EmissionImage(rows, aux) == AddSectorLayers(Constant(QZero), rows, 1, aux)

\* The divisor of the final rescaling: reduceRegion(sum) over the rectangle.
RegionSum(rows, aux) == ReduceSum(EmissionImage(rows, aux), Bounds)

\* emission_image.multiply(total_emission / region_sum) with a non-zero
\* divisor; the quotient is a Python division.
Rescale(emission_image, total_emission) ==
    ImgMultiply(emission_image,
                Q(total_emission * ReduceSum(emission_image, Bounds).d,
                  ReduceSum(emission_image, Bounds).n))
RescaledEmission(rows, aux) == Rescale(EmissionImage(rows, aux), SumRows(rows, 1))

\* A raster every cell of which is NaN or infinite, written 0/0.
NonFinite == [n |-> 0, d |-> 0]
NonFiniteImage == [v |-> [c \in Cells |-> NonFinite], valid |-> Cells]

\* What the layer sources of the country-wide variant may deliver. The
\* landcover layers of one dataset are present or absent together.
PopulationLayersCW == {Pattern(Q(1, 10), QOne)}
LandcoverGroups == {"esa", "modis", "copernicus", "dw"}
GroupKeys(group) ==
    CASE group = "esa" -> {"esa_urban", "esa_agriculture", "esa_grassland", "esa_forest"}
      [] group = "modis" -> {"modis_urban", "modis_cropland"}
      [] group = "copernicus" -> {"copernicus_urban", "copernicus_cropland"}
      [] group = "dw" -> {"dw_built", "dw_crops"}
LayerCW(key) ==
    CASE key \in {"esa_urban", "modis_urban", "copernicus_urban"} -> Pattern(QOne, QZero)
      [] key = "dw_built" -> Pattern(Q(1, 2), QZero)
      [] key \in {"esa_agriculture", "modis_cropland", "copernicus_cropland"} -> Pattern(QZero, Q(1, 2))
      [] key = "dw_crops" -> Pattern(QZero, Q(1, 2))
      [] key = "esa_grassland" -> Pattern(QZero, Q(1, 2))
      [] key = "esa_forest" -> Constant(QZero)
      [] key = "nightlights" -> Pattern(QOne, QZero)
      [] key = "distance_to_cities" -> Pattern(QInt(99000), QInt(49000))
      [] key = "transport_density" -> Constant(QOne)
FixedKeysCW == {"nightlights", "distance_to_cities", "transport_density"}

InitCW ==
    /\ variant = "country_wide"
    /\ pc = "load_ipcc"
    /\ gas_idx = 1
    /\ sectoral_emissions = <<>>
    /\ auxiliary_layers = EmptyDict
    /\ composite_indicators = EmptyDict
    /\ emission_layers = EmptyDict
    /\ path = EmptyDict
    /\ combined_map = NoImage
    /\ export_tasks = <<>>
    /\ drive_exports = <<>>
    /\ export_info = EmptyDict
    /\ div_by_zero = {}
    /\ call = NoCall
    /\ result = NoResult

\* create_auxiliary_data_layers
CreateAuxiliaryLayersCW ==
    /\ pc = "aux_layers"
    /\ \E pop \in PopulationLayersCW, groups \in SUBSET LandcoverGroups :
          LET keys == UNION {GroupKeys(g) : g \in groups} \cup FixedKeysCW
          IN  auxiliary_layers' =
                 [k \in keys \cup {"population"} |->
                     IF k = "population" THEN pop ELSE LayerCW(k)]
    /\ pc' = "gas"
    /\ UNCHANGED <<variant, gas_idx, sectoral_emissions, composite_indicators,
                   emission_layers, path, combined_map, export_tasks,
                   drive_exports, div_by_zero>>
    /\ UNCHANGED export_info
    /\ UNCHANGED fnvars

\* allocate_emissions_spatially, one gas whose emission image has a
\* non-zero sum over the rectangle.
AllocateGasCW ==
    /\ pc = "gas"
    /\ gas_idx <= Len(Gases)
    /\ LET rows == GasRows(sectoral_emissions, CurrentGas)
       IN  /\ rows # <<>>
           /\ RegionSum(rows, auxiliary_layers).n # 0
           /\ emission_layers' =
                 Put(emission_layers, CurrentGas, RescaledEmission(rows, auxiliary_layers))
    /\ path' = Put(path, CurrentGas, "allocated")
    /\ gas_idx' = gas_idx + 1
    /\ UNCHANGED <<variant, pc, sectoral_emissions, auxiliary_layers, composite_indicators,
                   combined_map, export_tasks, drive_exports, div_by_zero>>
    /\ UNCHANGED export_info
    /\ UNCHANGED fnvars

\* The same with a zero sum, the operands of the quotient being Python
\* numbers: ZeroDivisionError leaves allocate_emissions_spatially and is
\* caught by run_country_wide_analysis, which returns (None, None).
AllocateGasCWRaises ==
    /\ pc = "gas"
    /\ gas_idx <= Len(Gases)
    /\ LET rows == GasRows(sectoral_emissions, CurrentGas)
       IN  /\ rows # <<>>
           /\ RegionSum(rows, auxiliary_layers).n = 0
    /\ path' = Put(path, CurrentGas, "raised")
    /\ div_by_zero' = div_by_zero \cup {CurrentGas}
    /\ emission_layers' = EmptyDict
    /\ pc' = "failed"
    /\ UNCHANGED <<variant, gas_idx, sectoral_emissions, auxiliary_layers,
                   composite_indicators, combined_map, export_tasks, drive_exports>>
    /\ UNCHANGED export_info
    /\ UNCHANGED fnvars

\* The same with a zero sum, the total being a numpy float: the quotient is
\* NaN or infinite and so is every cell of the product.
AllocateGasCWNonFinite ==
    /\ pc = "gas"
    /\ gas_idx <= Len(Gases)
    /\ LET rows == GasRows(sectoral_emissions, CurrentGas)
       IN  /\ rows # <<>>
           /\ RegionSum(rows, auxiliary_layers).n = 0
    /\ path' = Put(path, CurrentGas, "allocated")
    /\ div_by_zero' = div_by_zero \cup {CurrentGas}
    /\ emission_layers' = Put(emission_layers, CurrentGas, NonFiniteImage)
    /\ gas_idx' = gas_idx + 1
    /\ UNCHANGED <<variant, pc, sectoral_emissions, auxiliary_layers, composite_indicators,
                   combined_map, export_tasks, drive_exports>>
    /\ UNCHANGED export_info
    /\ UNCHANGED fnvars

\* export_emission_maps: one entry per gas layer, "failed" when
\* getDownloadURL raised for it.
RECURSIVE DownloadEntries(_, _)
DownloadEntries(keys, failed) ==
    IF keys = {} THEN <<>>
    ELSE LET g == CHOOSE x \in keys : TRUE
         IN  <<[gas_type |-> g,
                status |-> IF g \in failed THEN "failed" ELSE "ready_for_download"]>>
             \o DownloadEntries(keys \ {g}, failed)
ExportEmissionMapsCW ==
    /\ pc = "gas"
    /\ gas_idx > Len(Gases)
    /\ \E failed \in SUBSET DOMAIN emission_layers :
          export_tasks' = DownloadEntries(DOMAIN emission_layers, failed)
    /\ pc' = "combine"
    /\ UNCHANGED <<variant, gas_idx, sectoral_emissions, auxiliary_layers,
                   composite_indicators, emission_layers, path, combined_map,
                   drive_exports, div_by_zero>>
    /\ UNCHANGED export_info
    /\ UNCHANGED fnvars

\* create_combined_emission_map and export_combined_map
CreateCombinedCW ==
    /\ pc = "combine"
    /\ combined_map' =
          IF \E g \in DOMAIN emission_layers : emission_layers[g] = NonFiniteImage
          THEN NonFiniteImage
          ELSE CombinedEmissionMap(variant, emission_layers)
    /\ \E status \in {"ready_for_download", "failed"} :
          export_tasks' = Append(export_tasks, [gas_type |-> "TOTAL", status |-> status])
    /\ pc' = "done"
    /\ UNCHANGED <<variant, gas_idx, sectoral_emissions, auxiliary_layers,
                   composite_indicators, emission_layers, path, drive_exports, div_by_zero>>
    /\ UNCHANGED export_info
    /\ UNCHANGED fnvars

NextCW ==
    \/ LoadIPCC
    \/ CreateAuxiliaryLayersCW
    \/ SkipGas
    \/ AllocateGasCW
    \/ AllocateGasCWRaises
    \/ AllocateGasCWNonFinite
    \/ ExportEmissionMapsCW
    \/ CreateCombinedCW

SpecCW == InitCW /\ [][NextCW]_vars

\* C6: a gas that has rows, all of them with total 0, ends with a raster
\* that is 0 in every cell; its allocation raises nothing and divides by no
\* zero.
C6_ZeroTotalGas ==
    \A g \in DOMAIN path :
        TotalEmission(g) = 0 =>
            /\ path[g] # "raised"
            /\ g \notin div_by_zero
            /\ Stored(g) /\ AllZero(emission_layers[g])

\* C7: every cell of every emission raster the allocation step stores is
\* non-negative (the totals of the table are non-negative), also for the
\* Transport sector, whose composite takes the logarithm of population.
C7_NonNegativity ==
    \A g \in DOMAIN emission_layers :
        emission_layers[g] # NonFiniteImage =>
            \A c \in Cells : QLe(QZero, emission_layers[g].v[c])

----------------------------------------------------------------------------
\* Properties of the exports.

\* C11: every raster handed to Export.image.toDrive, the per-gas ones and
\* the combined one, is unmasked and exactly 0 in every cell outside the
\* region its variant balances over.
C11_OutsideMaskNeutrality ==
    \A i \in DOMAIN drive_exports :
        \A c \in Cells \ RegionOf(variant) :
            /\ c \in drive_exports[i].image.valid
            /\ drive_exports[i].image.v[c] = QZero

\* C11 witness: the polygon-masked run has exported a gas raster and the
\* combined raster, both non-zero inside the polygon, and a cell outside
\* the polygon exists.
C11_Witness ==
    /\ variant = "polygon"
    /\ Cells \ Polygon # {}
    /\ \E i, j \in DOMAIN drive_exports :
          /\ drive_exports[i].description = "CO2"
          /\ drive_exports[j].description = "COMBINED"
          /\ \E c \in Polygon : drive_exports[i].image.v[c] # QZero
          /\ \E c \in Polygon : drive_exports[j].image.v[c] # QZero

----------------------------------------------------------------------------
\* Failure isolation.

\* C12: an error raised while one gas is allocated aborts that gas only:
\* the run is not abandoned, and once it is over every other gas that has
\* rows has its raster.
C12_GasFailureIsolation ==
    \A g \in DOMAIN path :
        path[g] = "raised" =>
            /\ pc # "failed"
            /\ pc = "done" =>
                  \A h \in GasSet \ {g} :
                      GasRows(sectoral_emissions, h) # <<>> => h \in DOMAIN path

\* The except branch of _create_polygon_masked_allocation and of
\* _create_enhanced_allocation: constant(1) over the region divided by its
\* region sum.
UniformAllocation(region) ==
    ImgDivide(Clip(Constant(QOne), region), ReduceSum(Clip(Constant(QOne), region), region))

\* The emission image of the composite branch when the allocator fell back.
FallbackEmission(v, total_emission) ==
    LET scaled == ImgMultiply(UniformAllocation(RegionOf(v)), QInt(total_emission))
    IN  IF v = "polygon" THEN Clip(scaled, Polygon) ELSE scaled

\* The composite branch of the gas loop when a call inside the sector loop
\* of the allocator raises: the try block around the whole loop is left and
\* the uniform allocation is returned for the gas.
AllocateFallsBack ==
    /\ pc = "gas"
    /\ gas_idx <= Len(Gases)
    /\ GasRows(sectoral_emissions, CurrentGas) # <<>>
    /\ ~HasInventory(CurrentGas)
    /\ \E s \in SectorsOf(GasRows(sectoral_emissions, CurrentGas)) :
          SectorTotal(GasRows(sectoral_emissions, CurrentGas), s) > 0
    /\ LET total_emission == TotalEmission(CurrentGas)
           emission_image == FallbackEmission(variant, total_emission)
       IN  /\ emission_layers' = Put(emission_layers, CurrentGas, emission_image)
           /\ ExportEmissionMap(emission_image, CurrentGas, total_emission)
    /\ path' = Put(path, CurrentGas, "fallback")
    /\ gas_idx' = gas_idx + 1
    /\ UNCHANGED <<variant, pc, sectoral_emissions, auxiliary_layers, composite_indicators,
                   combined_map, div_by_zero>>
    /\ UNCHANGED fnvars

\* The except branch of the gas loop: a call of the try body raises before
\* the layer is stored; the error is printed and the loop goes on.
GasRaises ==
    /\ pc = "gas"
    /\ gas_idx <= Len(Gases)
    /\ GasRows(sectoral_emissions, CurrentGas) # <<>>
    /\ path' = Put(path, CurrentGas, "failed")
    /\ gas_idx' = gas_idx + 1
    /\ UNCHANGED <<variant, pc, sectoral_emissions, auxiliary_layers, composite_indicators,
                   emission_layers, combined_map, export_tasks, drive_exports,
                   div_by_zero>>
    /\ UNCHANGED export_info
    /\ UNCHANGED fnvars

NextFault ==
    \/ Next
    \/ AllocateFallsBack
    \/ GasRaises

\* The run with the failures its except branches handle.
SpecFault == Init /\ [][NextFault]_vars

\* Two rasters are proportional over a region.
Proportional(a, b, region) ==
    \A c1, c2 \in region :
        QMul(a.v[c1], b.v[c2]) = QMul(a.v[c2], b.v[c1])

\* The rows of a gas without those of one sector.
RowsWithout(rows, sector) == SelectSeq(rows, LAMBDA r : r.sector_type # sector)

\* C13: when the allocation of one sector of a gas fails, the raster of the
\* gas still follows the proxy-weighted allocation of its other sectors:
\* there is a sector without which the sum of the weighted sector
\* allocations is proportional to the raster.
C13_SectorFailureIsolation ==
    \A g \in DOMAIN path :
        path[g] = "fallback" =>
            \E s \in SectorsOf(GasRows(sectoral_emissions, g)) :
                Proportional(emission_layers[g],
                             FinalAllocation(RowsWithout(GasRows(sectoral_emissions, g), s),
                                             TableOf(variant), RegionOf(variant),
                                             composite_indicators, auxiliary_layers),
                             RegionOf(variant))

----------------------------------------------------------------------------
\* Missing layers.

\* The gases of the table that have rows.
GasesWithRows == {g \in GasSet : GasRows(sectoral_emissions, g) # <<>>}

\* C14: whichever of the optional layers (the ODIAC raster, the composite
\* indicators) are absent, every gas that has rows gets a raster, which is
\* submitted for export: once the gas loop has passed a gas with rows the
\* gas is in emission_layers and among the exports.
C14_MissingLayersTolerated ==
    \A i \in 1..Len(Gases) :
        (pc \in {"gas", "done"} /\ i < gas_idx /\ Gases[i] \in GasesWithRows) =>
            /\ Gases[i] \in DOMAIN emission_layers
            /\ emission_layers[Gases[i]].valid = RegionOf(variant)
            /\ \E k \in DOMAIN drive_exports : drive_exports[k].description = Gases[i]
C14_Witness ==
    /\ pc = "done"
    /\ composite_indicators = EmptyDict
    /\ "odiac_co2" \notin DOMAIN auxiliary_layers
    /\ Cardinality(GasesWithRows) = 2
    /\ \A g \in GasesWithRows : path[g] = "composite"

----------------------------------------------------------------------------
\* Composite indicators of the polygon-masked variant, each applied on its
\* own to a dict of auxiliary layers.

\* focal_mean(radius=1): the mean of the unmasked cells at distance at most
\* one, on the line of cells.
Neighbours(img, c) == {x \in img.valid : x - c \in {-1, 0, 1}}
FocalMean(img) ==
    [v |-> [c \in Cells |->
               IF c \in img.valid
               THEN EEDivide(SumCells(img, Neighbours(img, c)),
                             QInt(Cardinality(Neighbours(img, c))))
               ELSE QZero],
     valid |-> img.valid]

\* ee.Image.constant(x).clip(self.uzbekistan_polygon)
PolygonConstant(q) == Clip(Constant(q), Polygon)

\* night_s = self.robust_unit_scale(nightlights, 'nightlights').focal_mean(radius=1)
NightS(aux) ==
    FocalMean(RobustUnitScale(Get(aux, "nightlights", PolygonConstant(QOne))))

\* od_s = self.robust_unit_scale(od.rename('odiac_co2'), 'odiac_co2').focal_mean(radius=1)
OdS(aux) == FocalMean(RobustUnitScale(aux["odiac_co2"]))

\* _create_polygon_masked_agricultural_composite
PolygonAgriculturalComposite(aux) ==
    Clip(WeightedSum(<< <<Get(aux, "cropland", PolygonConstant(W(3))), W(6)>>,
                        <<Get(aux, "grassland", PolygonConstant(W(2))), W(3)>>,
                        <<ImgSubtract(Constant(QOne), Get(aux, "urban", PolygonConstant(W(1)))),
                          W(1)>> >>, 1),
         Polygon)

\* industrial_composite before the ODIAC tweak.
IndustrialBase(aux) ==
    Clip(WeightedSum(<< <<NightS(aux), W(5)>>,
                        <<Get(aux, "urban", PolygonConstant(W(1))), W(2)>>,
                        <<Get(aux, "city_proximity", PolygonConstant(W(5))), W(3)>> >>, 1),
         Polygon)

\* _create_polygon_masked_industrial_composite
PolygonIndustrialComposite(aux) ==
    IF "odiac_co2" \in DOMAIN aux
    THEN ImgAdd(ImgMultiply(IndustrialBase(aux), W(8)), ImgMultiply(OdS(aux), W(2)))
    ELSE IndustrialBase(aux)

\* The component layers each composite reads and what the sources may
\* deliver for them.
ComponentNames(fn) ==
    IF fn = "_create_polygon_masked_agricultural_composite"
    THEN {"cropland", "grassland", "urban"}
    ELSE {"nightlights", "urban", "city_proximity", "odiac_co2"}
ComponentRasters(name) ==
    CASE name = "cropland" -> {Pattern(Q(1, 2), QOne), Pattern(QZero, QOne)}
      [] name = "grassland" -> {Pattern(QOne, QZero)}
      [] name = "urban" -> {Pattern(Q(1, 2), QZero), PolygonConstant(W(1))}
      [] name = "nightlights" -> {Pattern(QZero, QInt(2)), Pattern(QInt(2), QOne)}
      [] name = "city_proximity" -> {Pattern(QOne, Q(1, 2))}
      [] name = "odiac_co2" -> {Pattern(QZero, QInt(2))}
CompositeFunctions ==
    {"_create_polygon_masked_agricultural_composite",
     "_create_polygon_masked_industrial_composite"}

InitComposite ==
    /\ RunIdle
    /\ \E fn \in CompositeFunctions :
          \E present \in SUBSET ComponentNames(fn) :
              \E pick \in [present -> UNION {ComponentRasters(n) : n \in ComponentNames(fn)}] :
                  /\ \A n \in present : pick[n] \in ComponentRasters(n)
                  /\ call = [fn |-> fn, aux |-> [n \in present |-> Clip(pick[n], Polygon)]]
    /\ result = NoResult

ApplyAgriculturalComposite ==
    /\ call.fn = "_create_polygon_masked_agricultural_composite"
    /\ result = NoResult
    /\ result' = [fn |-> call.fn, image |-> PolygonAgriculturalComposite(call.aux)]
    /\ UNCHANGED <<runvars, call>>

ApplyIndustrialComposite ==
    /\ call.fn = "_create_polygon_masked_industrial_composite"
    /\ result = NoResult
    /\ result' = [fn |-> call.fn, image |-> PolygonIndustrialComposite(call.aux)]
    /\ UNCHANGED <<runvars, call>>

NextComposite == ApplyAgriculturalComposite \/ ApplyIndustrialComposite

SpecComposite == InitComposite /\ [][NextComposite]_vars

\* The weighted components of a composite that are present in the dict.
PresentAgricultural(aux) ==
    Indicator(aux, "cropland", W(6)) \o Indicator(aux, "grassland", W(3))
    \o (IF "urban" \in DOMAIN aux
        THEN << <<ImgSubtract(Constant(QOne), aux["urban"]), W(1)>> >> ELSE <<>>)
PresentIndustrial(aux) ==
    (IF "nightlights" \in DOMAIN aux THEN << <<NightS(aux), W(5)>> >> ELSE <<>>)
    \o Indicator(aux, "urban", W(2)) \o Indicator(aux, "city_proximity", W(3))
SumOfPresent(terms) ==
    IF terms = <<>> THEN PolygonConstant(QZero) ELSE Clip(WeightedSum(terms, 1), Polygon)
RemainingComponents(fn, aux) ==
    IF fn = "_create_polygon_masked_agricultural_composite"
    THEN SumOfPresent(PresentAgricultural(aux))
    ELSE IF "odiac_co2" \in DOMAIN aux
         THEN ImgAdd(ImgMultiply(SumOfPresent(PresentIndustrial(aux)), W(8)),
                     ImgMultiply(OdS(aux), W(2)))
         ELSE SumOfPresent(PresentIndustrial(aux))

\* C15: a composite built from a dict that lacks some of its component
\* layers is the weighted sum of the components that are present, with the
\* weights the code gives them: a missing component adds nothing to any
\* cell.
C15_MissingComponentDropped ==
    result.fn \in CompositeFunctions =>
        result.image = RemainingComponents(call.fn, call.aux)

----------------------------------------------------------------------------
\* Validation, warnings and metadata of the exports.

\* C16: no raster whose region sum differs from the total it is exported
\* with is ever handed to Export.image.toDrive.
C16_MismatchNeverExported ==
    \A i \in DOMAIN drive_exports :
        MaskSum(drive_exports[i].image) = QInt(export_tasks[i].total_emissions)

\* The export_info records of a gas that announce a started export carrying
\* the inventory total of the gas.
ReportedAsScaled(g) ==
    \E i \in DOMAIN export_tasks :
        /\ export_tasks[i].gas_type = g
        /\ export_tasks[i].task_status = "STARTED"
        /\ export_tasks[i].total_emissions = TotalEmission(g)
        /\ TotalEmission(g) > 0

\* C17: a gas whose clamped prior sums to zero over the polygon gets an
\* all-zero raster and is not reported as scaled to its inventory total.
C17_ZeroMassSurfaced ==
    \A g \in GasSet :
        (Stored(g) /\ DegeneratePrior(g)) =>
            /\ AllZero(emission_layers[g])
            /\ ~ReportedAsScaled(g)

\* The total the raster exported under a description is balanced to: the
\* inventory total of the gas, and for the combined raster the sum of the
\* totals of its layers, each times the factor its layer is multiplied by.
RECURSIVE CombinedTarget(_)
CombinedTarget(keys) ==
    IF keys = {} THEN 0
    ELSE LET g == CHOOSE x \in keys : TRUE
         IN  CombineFactor(variant, g) * TotalEmission(g) + CombinedTarget(keys \ {g})
BalancedTarget(description) ==
    IF description = "COMBINED" THEN CombinedTarget(DOMAIN emission_layers)
    ELSE TotalEmission(description)

\* C18: the total_emissions recorded with every export, the combined one
\* included, is the total the exported raster is balanced to.
C18_MetadataTotal ==
    \A i \in DOMAIN export_tasks :
        export_tasks[i].total_emissions = BalancedTarget(export_tasks[i].gas_type)

----------------------------------------------------------------------------
\* _prepare_sectoral_data, applied on its own to an inventory table.

\* A cell of the inventory table: NaN, or a value.
NaN == <<>>
Some(x) == <<x>>
IsNa(cell) == cell = NaN

\* The category labels of the tables and what _classify_sector finds in
\* them: 'road' in the first, 'cement' in the second, no term in the third.
CategoryLabels == {"Road Transportation", "Cement Production"}
ClassifySector(ipcc_category) ==
    CASE ipcc_category = "Road Transportation" -> "Transport"
      [] ipcc_category = "Cement Production" -> "Manufacturing"
      [] OTHER -> "Residential"

InventoryRows ==
    [category : {NaN} \cup {Some(x) : x \in CategoryLabels},
     gas_type : {NaN, Some("CO2"), Some("CH4")},
     emissions : {NaN, Some(2)}]
InventoryTables == SeqsUpTo(InventoryRows, MaxRows)

\* Mutation of DropNa: only the category column is looked at.
DropNa_CategoryOnly(rows) == SelectSeq(rows, LAMBDA r : ~IsNa(r.category))

\* self.ipcc_data.dropna(subset=['IPCC Category', 'emissions_2022_gg_co2eq', 'gas_type'])
DropNa(rows) ==
    SelectSeq(rows, LAMBDA r : ~IsNa(r.category) /\ ~IsNa(r.emissions) /\ ~IsNa(r.gas_type))

\* The dict appended for one row of clean_data; the country-wide variant
\* adds the spatial weights of the sector.
SectoralRecord(module, row) ==
    LET sector_type == IF IsNa(row.category) THEN "Residential"
                       ELSE ClassifySector(row.category[1])
        base == [ipcc_category |-> row.category,
                 sector_type |-> sector_type,
                 gas_type |-> row.gas_type,
                 emissions_gg_co2eq |-> row.emissions]
    IN  IF module = "country_wide"
        THEN [k \in DOMAIN base \cup {"spatial_weights"} |->
                 IF k = "spatial_weights" THEN SpatialWeights(sector_type) ELSE base[k]]
        ELSE base

\* The loop over clean_data.iterrows().
SectoralData(module, clean_data) ==
    [i \in 1..Len(clean_data) |-> SectoralRecord(module, clean_data[i])]

\* _prepare_sectoral_data: the polygon-masked variant prints the gas types
\* of the resulting frame, which has no column when no row is left.
PrepareRaises(module, rows) == module = "polygon" /\ DropNa(rows) = <<>>
PrepareSectoralData(module, rows) ==
    IF PrepareRaises(module, rows) THEN <<>> ELSE SectoralData(module, DropNa(rows))

InitPrepare ==
    /\ RunIdle
    /\ \E module \in {"polygon", "country_wide"}, rows \in InventoryTables :
          call = [fn |-> "_prepare_sectoral_data", module |-> module, ipcc_data |-> rows]
    /\ result = NoResult

ApplyPrepareSectoralData ==
    /\ call.fn = "_prepare_sectoral_data"
    /\ result = NoResult
    /\ result' = [fn |-> call.fn,
                  records |-> PrepareSectoralData(call.module, call.ipcc_data),
                  raised |-> PrepareRaises(call.module, call.ipcc_data)]
    /\ UNCHANGED <<runvars, call>>

NextPrepare == ApplyPrepareSectoralData

SpecPrepare == InitPrepare /\ [][NextPrepare]_vars

\* The positions of the rows of a table in which nothing is missing, and
\* how many of them lie at or before a position.
CompleteRow(r) == r.category # NaN /\ r.gas_type # NaN /\ r.emissions # NaN
CompleteUpTo(rows, i) == Cardinality({j \in 1..i : CompleteRow(rows[j])})

\* C19: the records are, in input order, one for each row in which
\* category, gas type and total are all present: the k-th complete row
\* gives the k-th record, with its category, gas and total, and there is
\* no further record.
C19_PrepareSectoralData ==
    result.fn = "_prepare_sectoral_data" =>
        /\ Len(result.records) = CompleteUpTo(call.ipcc_data, Len(call.ipcc_data))
        /\ \A i \in DOMAIN call.ipcc_data :
              CompleteRow(call.ipcc_data[i]) =>
                  LET rec == result.records[CompleteUpTo(call.ipcc_data, i)]
                  IN  /\ rec.ipcc_category = call.ipcc_data[i].category
                      /\ rec.gas_type = call.ipcc_data[i].gas_type
                      /\ rec.emissions_gg_co2eq = call.ipcc_data[i].emissions
C19_Witness ==
    /\ result.fn = "_prepare_sectoral_data"
    /\ Len(call.ipcc_data) = 2
    /\ call.ipcc_data[1].category # NaN
    /\ call.ipcc_data[1].gas_type = NaN
    /\ CompleteRow(call.ipcc_data[2])
    /\ Len(result.records) = 1
    /\ result.records[1].gas_type = call.ipcc_data[2].gas_type

----------------------------------------------------------------------------
\* Order of the stages.

\* C20: exporting comes after the rasters of all gases: as long as a gas
\* that has rows has no raster yet, nothing has been submitted for export.
C20_JoinBeforeExport ==
    drive_exports # <<>> => \A g \in GasesWithRows : Stored(g)

----------------------------------------------------------------------------
\* Export tasks.

\* The Drive tasks started for a description.
TasksFor(description) ==
    {i \in DOMAIN drive_exports : drive_exports[i].description = description}

----------------------------------------------------------------------------
\* Normalisation applied twice.

\* C22: for a layer whose low and high percentile over the polygon differ,
\* robust_unit_scale applied to its own result returns that result, cell by
\* cell.
C22_NormalizeIdempotent ==
    (result.fn = "robust_unit_scale twice" /\ ~RobustDividesByZero(call.img)) =>
        result.image = result.once
C22_Witness ==
    /\ result.fn = "robust_unit_scale twice"
    /\ ~RobustDividesByZero(call.img)
    /\ result.once # call.img
    /\ \E c \in Cells : result.image.v[c] \notin {QZero, QOne}

----------------------------------------------------------------------------
\* The "normalize to match total" step of the robust variant, applied on its
\* own to an allocation image, a gas total and an outcome of the reduction.

\* The outcomes of reduceRegion(...).getInfo().get('allocation', 1): the sum
\* over the rectangle, the default 1 when the dict has no such key, or an
\* exception.
ReductionOutcomes == {"sum", "missing_key", "failed"}

\* allocate_emissions_spatially of the robust variant, from "Normalize to
\* match total" to the layer stored for the gas.
NormalizeToTotal(allocation_image, total_emission, outcome) ==
    IF outcome = "failed"
    THEN ImgMultiply(allocation_image, Q(total_emission, 1000000))
    ELSE LET total_allocated == IF outcome = "missing_key" THEN QOne
                                ELSE ReduceSum(allocation_image, Bounds)
         IN  IF QLt(QZero, total_allocated)
             THEN ImgMultiply(allocation_image, EEDivide(QInt(total_emission), total_allocated))
             ELSE allocation_image

InitNormalize ==
    /\ RunIdle
    /\ \E img \in ScaleInputs, t \in EmissionTotals, outcome \in ReductionOutcomes :
          call = [fn |-> "normalize_to_total", img |-> img, total_emission |-> t,
                  outcome |-> outcome]
    /\ result = NoResult

ApplyNormalizeToTotal ==
    /\ call.fn = "normalize_to_total"
    /\ result = NoResult
    /\ result' = [fn |-> call.fn,
                  image |-> NormalizeToTotal(call.img, call.total_emission, call.outcome)]
    /\ UNCHANGED <<runvars, call>>

NextNormalize == ApplyNormalizeToTotal

SpecNormalize == InitNormalize /\ [][NextNormalize]_vars

\* C23: whatever the outcome of the reduction, the raster stored for the gas
\* has region sum equal to the gas total.
C23_NormalizedToTotal ==
    result.fn = "normalize_to_total" =>
        ReduceSum(result.image, Bounds) = QInt(call.total_emission)

----------------------------------------------------------------------------
\* _classify_sector, applied on its own to a category. A string is the
\* sequence of its characters.

\* str.lower on the characters the categories are written with.
LowerChar(ch) ==
    CASE ch = "B" -> "b"
      [] ch = "E" -> "e"
      [] ch = "I" -> "i"
      [] ch = "O" -> "o"
      [] ch = "P" -> "p"
      [] ch = "R" -> "r"
      [] ch = "S" -> "s"
      [] ch = "T" -> "t"
      [] ch = "W" -> "w"
      [] OTHER -> ch
Lower(str) == [i \in 1..Len(str) |-> LowerChar(str[i])]

\* term in category_lower
Contains(str, term) ==
    \E k \in 0..(Len(str) - Len(term)) :
        \A i \in 1..Len(term) : str[k + i] = term[i]
AnyTermIn(terms, str) == \E i \in DOMAIN terms : Contains(str, terms[i])

EnergyTerms ==
    <<<<"e", "n", "e", "r", "g", "y", " ", "i", "n", "d", "u", "s", "t", "r", "i", "e", "s">>,
      <<"e", "l", "e", "c", "t", "r", "i", "c", "i", "t", "y">>,
      <<"p", "o", "w", "e", "r">>>>
TransportTerms ==
    <<<<"t", "r", "a", "n", "s", "p", "o", "r", "t">>,
      <<"r", "o", "a", "d">>,
      <<"a", "v", "i", "a", "t", "i", "o", "n">>,
      <<"n", "a", "v", "i", "g", "a", "t", "i", "o", "n">>>>
AgricultureTerms ==
    <<<<"e", "n", "t", "e", "r", "i", "c">>,
      <<"f", "e", "r", "m", "e", "n", "t", "a", "t", "i", "o", "n">>,
      <<"a", "g", "r", "i", "c", "u", "l", "t", "u", "r", "e">>,
      <<"l", "i", "v", "e", "s", "t", "o", "c", "k">>,
      <<"s", "o", "i", "l">>>>
ManufacturingTerms ==
    <<<<"m", "a", "n", "u", "f", "a", "c", "t", "u", "r", "i", "n", "g">>,
      <<"i", "n", "d", "u", "s", "t", "r", "i", "a", "l">>,
      <<"c", "e", "m", "e", "n", "t">>,
      <<"s", "t", "e", "e", "l">>,
      <<"g", "l", "a", "s", "s">>>>

\* Mutation of ClassifyCategory: the terms are looked for in the category
\* as it is written.
ClassifyCategory_CaseSensitive(ipcc_category) ==
    IF ipcc_category.type # "str" THEN "Residential"
    ELSE IF AnyTermIn(EnergyTerms, ipcc_category.chars) THEN "Energy Industries"
    ELSE IF AnyTermIn(TransportTerms, ipcc_category.chars) THEN "Transport"
    ELSE IF AnyTermIn(AgricultureTerms, ipcc_category.chars) THEN "Agriculture"
    ELSE IF AnyTermIn(ManufacturingTerms, ipcc_category.chars) THEN "Manufacturing"
    ELSE "Residential"

\* _classify_sector
ClassifyCategory(ipcc_category) ==
    IF ipcc_category.type # "str" THEN "Residential"
    ELSE IF AnyTermIn(EnergyTerms, Lower(ipcc_category.chars)) THEN "Energy Industries"
    ELSE IF AnyTermIn(TransportTerms, Lower(ipcc_category.chars)) THEN "Transport"
    ELSE IF AnyTermIn(AgricultureTerms, Lower(ipcc_category.chars)) THEN "Agriculture"
    ELSE IF AnyTermIn(ManufacturingTerms, Lower(ipcc_category.chars)) THEN "Manufacturing"
    ELSE "Residential"

\* The categories the function is applied to: None, NaN, a number, and the
\* strings of one or two of these words, the two separated by a blank.
CategoryWords ==
    {<<"P", "O", "W", "E", "R">>,
     <<"B", "r", "o", "a", "d", "c", "a", "s", "t">>,
     <<"S", "o", "i", "l">>,
     <<"s", "t", "e", "e", "l">>,
     <<"E", "n", "e", "r", "g", "y">>,
     <<"I", "n", "d", "u", "s", "t", "r", "i", "e", "s">>,
     <<"W", "a", "s", "t", "e">>,
     <<"T", "r", "a", "n", "s", "p", "o", "r", "t">>}
CategoryStrings ==
    {<<>>} \cup CategoryWords \cup {a \o <<" ">> \o b : a, b \in CategoryWords}
Categories ==
    {[type |-> t, chars |-> <<>>] : t \in {"NoneType", "nan", "int"}}
    \cup {[type |-> "str", chars |-> s] : s \in CategoryStrings}

InitClassify ==
    /\ RunIdle
    /\ \E c \in Categories : call = [fn |-> "_classify_sector", ipcc_category |-> c]
    /\ result = NoResult

ApplyClassifySector ==
    /\ call.fn = "_classify_sector"
    /\ result = NoResult
    /\ result' = [fn |-> call.fn, sector_type |-> ClassifyCategory(call.ipcc_category)]
    /\ UNCHANGED <<runvars, call>>

NextClassify == ApplyClassifySector

SpecClassify == InitClassify /\ [][NextClassify]_vars

\* The keyword groups in the order the claim gives them, and the groups a
\* lower-cased string has a term of.
KeywordGroups ==
    << <<"Energy Industries", EnergyTerms>>, <<"Transport", TransportTerms>>,
       <<"Agriculture", AgricultureTerms>>, <<"Manufacturing", ManufacturingTerms>> >>
MatchingGroups(str) ==
    {i \in DOMAIN KeywordGroups : AnyTermIn(KeywordGroups[i][2], Lower(str))}

\* C24: the sector of a category is one of the five keys of the sector
\* weight table, so the weights looked up are never the fallback; it is
\* Residential for a category that is no string or has no term of any
\* group, and otherwise the first group, in the order Energy Industries,
\* Transport, Agriculture, Manufacturing, of which the lower-cased category
\* contains a term.
C24_ClassifySector ==
    result.fn = "_classify_sector" =>
        /\ result.sector_type \in SectorTypes
        /\ result.sector_type \in DOMAIN PolygonSectorWeights
        /\ LET c == call.ipcc_category
               groups == IF c.type = "str" THEN MatchingGroups(c.chars) ELSE {}
           IN  IF groups = {} THEN result.sector_type = "Residential"
               ELSE \E i \in groups :
                       /\ \A j \in groups : i <= j
                       /\ result.sector_type = KeywordGroups[i][1]
C24_Witness ==
    /\ result.fn = "_classify_sector"
    /\ call.ipcc_category.type = "str"
    /\ Cardinality(MatchingGroups(call.ipcc_category.chars)) = 2
    /\ call.ipcc_category.chars # Lower(call.ipcc_category.chars)
    /\ result.sector_type = "Transport"

----------------------------------------------------------------------------
\* run_full_analysis of run_analysis.py. call holds what the environment
\* will answer (the outcome of each test suite, the data the loader finds);
\* result holds the frame of the function: its position, the loop index,
\* all_passed, the suites run_tests was called for, whether the loader was
\* called, and the value returned.

prereq_tests == <<"small", "medium", "large">>

\* What run_tests(scale) meets: a missing test file, a subprocess that
\* returns 0 or not, or an exception while running it.
TestOutcomes == {"passed", "failed", "missing", "error"}
\* run_tests: True only for return code 0.
run_tests(outcome) == outcome = "passed"

\* What loader.get_all_available_data() gives: no source, some source, or
\* an exception.
DataOutcomes == {"empty", "loaded", "raises"}

InitRunAnalysis ==
    /\ RunIdle
    /\ \E outcomes \in [{"small", "medium", "large"} -> TestOutcomes], data \in DataOutcomes :
          call = [fn |-> "run_full_analysis", tests |-> outcomes, all_data |-> data]
    /\ result = [fn |-> "run_full_analysis", pc |-> "loop", i |-> 1, all_passed |-> TRUE,
                 ran |-> <<>>, loader_called |-> FALSE, value |-> "none"]

\* Mutation of PrerequisiteFails: all_passed is cleared but the loop goes
\* on to the next suite.
PrerequisiteFails_NoBreak ==
    /\ call.fn = "run_full_analysis"
    /\ result.pc = "loop"
    /\ result.i <= Len(prereq_tests)
    /\ ~run_tests(call.tests[prereq_tests[result.i]])
    /\ result' = [result EXCEPT !.ran = Append(@, prereq_tests[result.i]),
                                !.all_passed = FALSE,
                                !.i = @ + 1]
    /\ UNCHANGED <<runvars, call>>

\* One iteration of the loop over prereq_tests in which run_tests is True.
PrerequisitePasses ==
    /\ call.fn = "run_full_analysis"
    /\ result.pc = "loop"
    /\ result.i <= Len(prereq_tests)
    /\ run_tests(call.tests[prereq_tests[result.i]])
    /\ result' = [result EXCEPT !.ran = Append(@, prereq_tests[result.i]),
                                !.i = @ + 1]
    /\ UNCHANGED <<runvars, call>>

\* One iteration in which run_tests is False: all_passed = False; break
PrerequisiteFails ==
    /\ call.fn = "run_full_analysis"
    /\ result.pc = "loop"
    /\ result.i <= Len(prereq_tests)
    /\ ~run_tests(call.tests[prereq_tests[result.i]])
    /\ result' = [result EXCEPT !.ran = Append(@, prereq_tests[result.i]),
                                !.all_passed = FALSE,
                                !.pc = "after_loop"]
    /\ UNCHANGED <<runvars, call>>

LoopOver == result.pc = "after_loop" \/ (result.pc = "loop" /\ result.i > Len(prereq_tests))

\* if not all_passed: ... return False
PrerequisitesNotMet ==
    /\ call.fn = "run_full_analysis"
    /\ LoopOver
    /\ ~result.all_passed
    /\ result' = [result EXCEPT !.pc = "returned", !.value = FALSE]
    /\ UNCHANGED <<runvars, call>>

\* "2. Starting Full Analysis...": the loader is called; no data and an
\* exception give False, data gives True.
StartFullAnalysis ==
    /\ call.fn = "run_full_analysis"
    /\ LoopOver
    /\ result.all_passed
    /\ result' = [result EXCEPT !.pc = "returned",
                                !.loader_called = TRUE,
                                !.value = (call.all_data = "loaded")]
    /\ UNCHANGED <<runvars, call>>

NextRunAnalysis ==
    \/ PrerequisitePasses
    \/ PrerequisiteFails
    \/ PrerequisitesNotMet
    \/ StartFullAnalysis

SpecRunAnalysis == InitRunAnalysis /\ [][NextRunAnalysis]_vars

\* C25: the suites run are small, medium, large in that order, none is run
\* after one that failed, the loader is called only after all three passed,
\* and when a suite failed the function returns False without having
\* called the loader.
C25_PrerequisiteOrder ==
    result.fn = "run_full_analysis" =>
        /\ \A k \in DOMAIN result.ran :
              /\ result.ran[k] = prereq_tests[k]
              /\ k < Len(result.ran) => run_tests(call.tests[result.ran[k]])
        /\ result.loader_called =>
              \A s \in DOMAIN call.tests : run_tests(call.tests[s])
        /\ (result.pc = "returned" /\ \E s \in DOMAIN call.tests : ~run_tests(call.tests[s])) =>
              /\ result.value = FALSE
              /\ ~result.loader_called
              /\ ~run_tests(call.tests[result.ran[Len(result.ran)]])
C25_Witness ==
    /\ result.fn = "run_full_analysis"
    /\ result.pc = "returned"
    /\ result.ran = <<"small", "medium">>
    /\ call.tests["large"] = "passed"
    /\ result.value = FALSE

----------------------------------------------------------------------------
\* main of progressive_analysis_fixed.py. call holds what each phase will
\* meet; result holds the frame of main: its position, the phases run, the
\* number of records phase 1 handed over, whether the 'Cannot proceed'
\* message was printed, and the value returned.

\* What phase_1_small_scale meets: a missing input file, a table without
\* the emissions column, an exception, or a table of some records.
Phase1Outcomes == {"missing_csv", "missing_xlsx", "no_emissions_column", "exception", "passed"}
\* What phase_2_medium_scale and phase_3_large_scale meet.
PhaseOutcomes == {"exception", "passed"}
RecordCounts == 1..5

\* The values phase_1_small_scale returns: a pair, or the single False of
\* its early returns.
Phase1Return(outcome, records) ==
    CASE outcome = "passed" -> <<TRUE, records>>
      [] outcome = "exception" -> <<FALSE, 0>>
      [] OTHER -> <<FALSE>>
\* Two values can be unpacked into phase1_passed, ipcc_data; a single bool
\* cannot.
Unpackable(values) == Len(values) = 2

InitProgressive ==
    /\ RunIdle
    /\ \E p1 \in Phase1Outcomes, p2, p3 \in PhaseOutcomes, n \in RecordCounts :
          call = [fn |-> "main", phase1 |-> p1, phase2 |-> p2, phase3 |-> p3,
                  records |-> IF p1 = "passed" THEN n ELSE 0]
    /\ result = [fn |-> "main", pc |-> "phase1", ran |-> <<>>, ipcc_data |-> 0,
                 cannot_proceed |-> FALSE, value |-> "none"]

\* phase1_passed, ipcc_data = phase_1_small_scale()
Phase1 ==
    /\ call.fn = "main"
    /\ result.pc = "phase1"
    /\ LET returned == Phase1Return(call.phase1, call.records)
       IN  result' =
              IF ~Unpackable(returned)
              THEN [result EXCEPT !.ran = Append(@, 1), !.pc = "raised", !.value = "TypeError"]
              ELSE IF returned[1]
              THEN [result EXCEPT !.ran = Append(@, 1), !.pc = "phase2",
                                  !.ipcc_data = returned[2]]
              ELSE [result EXCEPT !.ran = Append(@, 1), !.pc = "cannot_proceed"]
    /\ UNCHANGED <<runvars, call>>

\* phase2_passed = phase_2_medium_scale(ipcc_data)
Phase2 ==
    /\ call.fn = "main"
    /\ result.pc = "phase2"
    /\ result' = [result EXCEPT !.ran = Append(@, 2),
                                !.pc = IF call.phase2 = "passed" THEN "phase3"
                                       ELSE "cannot_proceed"]
    /\ UNCHANGED <<runvars, call>>

\* phase3_passed = phase_3_large_scale(ipcc_data)
Phase3 ==
    /\ call.fn = "main"
    /\ result.pc = "phase3"
    /\ result' = [result EXCEPT !.ran = Append(@, 3),
                                !.pc = IF call.phase3 = "passed" THEN "phase4"
                                       ELSE "cannot_proceed"]
    /\ UNCHANGED <<runvars, call>>

\* phase_4_production_ready(ipcc_data), the final summary, return True
Phase4 ==
    /\ call.fn = "main"
    /\ result.pc = "phase4"
    /\ result' = [result EXCEPT !.ran = Append(@, 4), !.pc = "returned", !.value = "True"]
    /\ UNCHANGED <<runvars, call>>

\* print("FAILED: Cannot proceed - Phase k tests failed"); return False
CannotProceed ==
    /\ call.fn = "main"
    /\ result.pc = "cannot_proceed"
    /\ result' = [result EXCEPT !.cannot_proceed = TRUE, !.pc = "returned", !.value = "False"]
    /\ UNCHANGED <<runvars, call>>

NextProgressive == Phase1 \/ Phase2 \/ Phase3 \/ Phase4 \/ CannotProceed

SpecProgressive == InitProgressive /\ [][NextProgressive]_vars

\* The phases of a call that do not pass.
FailingPhases ==
    {k \in 1..3 : (k = 1 /\ call.phase1 # "passed") \/ (k = 2 /\ call.phase2 # "passed")
                  \/ (k = 3 /\ call.phase3 # "passed")}

\* C26: a phase runs only after every earlier phase passed, and once main
\* is over after a failure of phase 1, 2 or 3 it has printed the 'Cannot
\* proceed' message and returned False.
C26_CannotProceed ==
    result.fn = "main" =>
        /\ \A i \in DOMAIN result.ran :
              /\ result.ran[i] = i
              /\ \A k \in FailingPhases : k >= i
        /\ (result.pc \in {"returned", "raised"} /\ FailingPhases # {}) =>
              /\ result.cannot_proceed
              /\ result.value = "False"

----------------------------------------------------------------------------
\* load_ipcc_2022_data of the data loader, applied on its own. call holds
\* the two files as the loader finds them and result what it returns.

\* A file is absent, present but not readable (pd.read_csv or pd.read_excel
\* raises), or readable with some rows.
FileStates ==
    {[exists |-> FALSE, readable |-> FALSE, rows |-> 0],
     [exists |-> TRUE, readable |-> FALSE, rows |-> 0]}
    \cup {[exists |-> TRUE, readable |-> TRUE, rows |-> n] : n \in 1..MaxRows}

\* _process_ipcc_data: astype(float) raises when the emission column is
\* there and one of its values is no number.
ProcessRaises(has_emission_column, numeric) == has_emission_column /\ ~numeric

EmptyFrame == [source |-> "none", rows |-> 0, processed |-> FALSE, raised |-> FALSE]

\* What is done with the file that was chosen.
LoadFrom(source, file, has_emission_column, numeric) ==
    IF ~file.readable THEN EmptyFrame
    ELSE IF file.rows > 0
         THEN IF ProcessRaises(has_emission_column, numeric)
              THEN [source |-> source, rows |-> 0, processed |-> FALSE, raised |-> TRUE]
              ELSE [source |-> source, rows |-> file.rows, processed |-> TRUE, raised |-> FALSE]
         ELSE [source |-> source, rows |-> 0, processed |-> FALSE, raised |-> FALSE]

\* load_ipcc_2022_data: if csv_path.exists() ... elif xlsx_path.exists() ...
LoadIpcc2022Data(csv, xlsx, has_emission_column, numeric) ==
    IF csv.exists THEN LoadFrom("csv", csv, has_emission_column, numeric)
    ELSE IF xlsx.exists THEN LoadFrom("xlsx", xlsx, has_emission_column, numeric)
    ELSE EmptyFrame

\* validate_data_availability: status['IPCC_2022']
Ipcc2022Available(csv, xlsx) == csv.exists \/ xlsx.exists

InitLoader ==
    /\ RunIdle
    /\ \E csv, xlsx \in FileStates, has_emission_column, numeric \in BOOLEAN :
          call = [fn |-> "load_ipcc_2022_data", csv |-> csv, xlsx |-> xlsx,
                  has_emission_column |-> has_emission_column, numeric |-> numeric]
    /\ result = NoResult

ApplyLoadIpcc2022Data ==
    /\ call.fn = "load_ipcc_2022_data"
    /\ result = NoResult
    /\ result' = [fn |-> call.fn,
                  frame |-> LoadIpcc2022Data(call.csv, call.xlsx,
                                             call.has_emission_column, call.numeric)]
    /\ UNCHANGED <<runvars, call>>

NextLoader == ApplyLoadIpcc2022Data

SpecLoader == InitLoader /\ [][NextLoader]_vars

\* C27: the loader never raises; when one of the two files exists and can
\* be read it returns a processed table with rows, taken from the CSV file
\* if that one can be read; otherwise it returns a table without rows.
C27_LoadIpccData ==
    result.fn = "load_ipcc_2022_data" =>
        /\ ~result.frame.raised
        /\ IF call.csv.readable \/ call.xlsx.readable
           THEN /\ Ipcc2022Available(call.csv, call.xlsx)
                /\ result.frame.rows > 0
                /\ result.frame.processed
                /\ call.csv.readable => result.frame.source = "csv"
           ELSE result.frame.rows = 0

----------------------------------------------------------------------------
\* monitor_exports of the country-wide analysis. result holds the frame of
\* the function (its position and the states it read last) together with
\* the batch tasks it polls, which the export service moves on their own.

NTasks == 2

\* The states task.status()['state'] can report.
TaskStates == {"READY", "RUNNING", "COMPLETED", "FAILED", "CANCEL_REQUESTED", "CANCELLED"}
Terminal(state) == state \in {"COMPLETED", "FAILED", "CANCELLED"}

RECURSIVE Count(_, _)
\* states.count(value)
Count(states, value) ==
    IF states = <<>> THEN 0
    ELSE (IF Head(states) = value THEN 1 ELSE 0) + Count(Tail(states), value)

InitMonitor ==
    /\ RunIdle
    /\ call = [fn |-> "monitor_exports"]
    /\ \E n \in 0..NTasks : \E tasks \in [1..n -> {"READY", "RUNNING"}] :
          result = [fn |-> "monitor_exports", pc |-> "poll", tasks |-> tasks,
                    states |-> <<>>]

\* The export service moves task t from one state to another.
TaskMoves(t, from, to) ==
    /\ call.fn = "monitor_exports"
    /\ t \in DOMAIN result.tasks
    /\ result.tasks[t] \in from
    /\ result' = [result EXCEPT !.tasks[t] = to]
    /\ UNCHANGED <<runvars, call>>

TaskRuns == \E t \in 1..NTasks : TaskMoves(t, {"READY"}, "RUNNING")
TaskCompletes == \E t \in 1..NTasks : TaskMoves(t, {"RUNNING"}, "COMPLETED")
TaskFails == \E t \in 1..NTasks : TaskMoves(t, {"READY", "RUNNING"}, "FAILED")
TaskCancelRequested ==
    \E t \in 1..NTasks : TaskMoves(t, {"READY", "RUNNING"}, "CANCEL_REQUESTED")
TaskCancelled == \E t \in 1..NTasks : TaskMoves(t, {"CANCEL_REQUESTED"}, "CANCELLED")

\* One pass of the while loop: the states are read and counted; the loop is
\* left when completed + failed == len(all_tasks), else the function sleeps.
PollExports ==
    /\ call.fn = "monitor_exports"
    /\ result.pc = "poll"
    /\ LET states == result.tasks
           completed == Count(states, "COMPLETED")
           failed == Count(states, "FAILED")
       IN  result' = [result EXCEPT
                        !.states = states,
                        !.pc = IF completed + failed = Len(states)
                               THEN "returned" ELSE "sleep"]
    /\ UNCHANGED <<runvars, call>>

\* time.sleep(30)
SleepOver ==
    /\ call.fn = "monitor_exports"
    /\ result.pc = "sleep"
    /\ result' = [result EXCEPT !.pc = "poll"]
    /\ UNCHANGED <<runvars, call>>

NextMonitor ==
    \/ TaskRuns
    \/ TaskCompletes
    \/ TaskFails
    \/ TaskCancelRequested
    \/ TaskCancelled
    \/ PollExports
    \/ SleepOver

\* The function keeps being scheduled: a pending poll is made and a sleep
\* ends.
SpecMonitor ==
    InitMonitor /\ [][NextMonitor]_vars /\ WF_vars(PollExports) /\ WF_vars(SleepOver)

\* C28: if every task polled ends up in a terminal state (completed,
\* failed or cancelled) for good, monitor_exports eventually returns.
C28_MonitorReturns ==
    (\A t \in 1..NTasks :
        <>[](t \in DOMAIN result.tasks => Terminal(result.tasks[t])))
    => <>(result.fn = "monitor_exports" /\ result.pc = "returned")

\* The same where no task is ever cancelled: the loop does end then.
MonitorReturnsUnlessCancelled ==
    (\A t \in 1..NTasks :
        <>[](t \in DOMAIN result.tasks => result.tasks[t] \in {"COMPLETED", "FAILED"}))
    => <>(result.fn = "monitor_exports" /\ result.pc = "returned")

----------------------------------------------------------------------------
\* The analysis run on a table whose rows carry any gas label. The
\* inventory names more gases than the three the gas loop goes through:
\* _process_ipcc_data keeps every label of the 'Greenhouse gas' column and
\* _prepare_sectoral_data copies it into gas_type.

GasLabels == GasSet \cup {"HFC"}

LabelledRows ==
    [sector_type : SectorTypes, gas_type : GasLabels,
     emissions_gg_co2eq : EmissionTotals \ {0}]
LabelledTables == SeqsUpTo(LabelledRows, MaxRows)

\* load_and_prepare_ipcc_data with such a table.
LoadLabelledIPCC ==
    /\ pc = "load_ipcc"
    /\ \E rows \in LabelledTables : sectoral_emissions' = rows
    /\ pc' = "aux_layers"
    /\ UNCHANGED <<variant, gas_idx, auxiliary_layers, composite_indicators,
                   emission_layers, path, combined_map, export_tasks,
                   drive_exports, div_by_zero>>
    /\ UNCHANGED export_info
    /\ UNCHANGED fnvars

NextLabelled ==
    \/ LoadLabelledIPCC
    \/ CreateAuxiliaryLayers
    \/ CreateCompositeIndicators
    \/ SkipGas
    \/ AllocateFromInventory
    \/ AllocateFromComposite
    \/ CreateCombined
    \/ FinishWithoutLayers

SpecLabelled == Init /\ [][NextLabelled]_vars

RECURSIVE RasterMass(_)
\* The sum over the region of the rasters of the gases in keys.
RasterMass(keys) ==
    IF keys = {} THEN QZero
    ELSE LET g == CHOOSE x \in keys : TRUE
         IN  QAdd(ReduceSum(emission_layers[g], RegionOf(variant)),
                  RasterMass(keys \ {g}))

\* Every row of the table belongs to a gas that got a raster.
EveryRowAllocated ==
    \A k \in DOMAIN sectoral_emissions :
        sectoral_emissions[k].gas_type \in DOMAIN emission_layers

\* C29: when the run is done every cleaned row belongs to a gas that got
\* a raster, and the region sums of the per-gas rasters add up to the sum
\* of emissions_gg_co2eq over all cleaned rows.
C29_NoMassLost ==
    pc = "done" =>
        /\ EveryRowAllocated
        /\ LET mass == RasterMass(DOMAIN emission_layers)
           IN  mass.n = SumRows(sectoral_emissions, 1) * mass.d

\* The rows of a gas outside the loop are lost even in runs whose rasters
\* all carry the total of their gas.
LabelledRowsKept ==
    (pc = "done" /\ div_by_zero = {}
     /\ \A g \in DOMAIN emission_layers :
           LET s == ReduceSum(emission_layers[g], RegionOf(variant))
           IN  s.n = TotalEmission(g) * s.d)
    => EveryRowAllocated

----------------------------------------------------------------------------
\* _export_polygon_masked_emission_map / _export_emission_map called for
\* the rasters of one allocation step, with the failures the calls can
\* meet. call holds the rasters to export in the order of the calls;
\* result holds the position in that order, the exports whose exception
\* reached the caller and whether a write of an info file failed.

\* The exports of an allocation step: the gases that got a raster, in the
\* order of the gas loop, then the combined map when it was built.
ExportQueues ==
    {SelectSeq(Gases, LAMBDA g : g \in produced) \o tail :
        produced \in SUBSET GasSet \ {{}}, tail \in {<<>>, <<"COMBINED">>}}

\* The export_info of the except branch.
FailedInfo(gas_type) == [gas_type |-> gas_type, status |-> "export_failed"]

InitExport ==
    /\ variant \in Variants
    /\ pc = "export"
    /\ gas_idx = 1
    /\ sectoral_emissions = <<>>
    /\ auxiliary_layers = EmptyDict
    /\ composite_indicators = EmptyDict
    /\ emission_layers = EmptyDict
    /\ path = EmptyDict
    /\ combined_map = NoImage
    /\ export_tasks = <<>>
    /\ drive_exports = <<>>
    /\ export_info = EmptyDict
    /\ div_by_zero = {}
    /\ \E queue \in ExportQueues :
          call = [fn |-> "_export_emission_map", queue |-> queue,
                  image |-> CompositeLayer("urban_composite"), total_emission |-> 2]
    /\ result = [fn |-> "_export_emission_map", i |-> 1, raised |-> {},
                 write_failed |-> FALSE]

ExportPending == call.fn = "_export_emission_map" /\ result.i <= Len(call.queue)
ExportIdle ==
    UNCHANGED <<variant, pc, gas_idx, sectoral_emissions, auxiliary_layers,
                composite_indicators, emission_layers, path, combined_map, div_by_zero>>

\* The except branch: the export_failed info is written; when that write
\* fails too, its exception leaves the function.
ExportHandler(gas_type, handler_written) ==
    /\ export_info' = IF handler_written
                      THEN Put(export_info, gas_type, FailedInfo(gas_type))
                      ELSE export_info
    /\ result' = [result EXCEPT
                    !.i = @ + 1,
                    !.raised = IF handler_written THEN @ ELSE @ \cup {gas_type},
                    !.write_failed = @ \/ ~handler_written]

\* The try block runs to its end.
ExportStarts ==
    /\ ExportPending
    /\ ExportEmissionMap(call.image, call.queue[result.i], call.total_emission)
    /\ result' = [result EXCEPT !.i = @ + 1]
    /\ ExportIdle
    /\ UNCHANGED call

\* Export.image.toDrive or task.start() raises: no task is started.
ExportFailsBeforeStart ==
    /\ ExportPending
    /\ \E handler_written \in BOOLEAN :
          ExportHandler(call.queue[result.i], handler_written)
    /\ UNCHANGED <<export_tasks, drive_exports>>
    /\ ExportIdle
    /\ UNCHANGED call

\* task.start() returns and the write of the info file raises: the task
\* is started, the append is not reached.
ExportFailsAfterStart ==
    /\ ExportPending
    /\ LET gas_type == call.queue[result.i]
           task_id == Len(drive_exports) + 1
       IN  /\ drive_exports' = Append(drive_exports,
                                      [description |-> gas_type,
                                       id |-> task_id,
                                       image |-> ExportImage(variant, call.image)])
           /\ \E handler_written \in BOOLEAN :
                 /\ export_info' = IF handler_written
                                   THEN Put(export_info, gas_type, FailedInfo(gas_type))
                                   ELSE export_info
                 /\ result' = [result EXCEPT
                                 !.i = @ + 1,
                                 !.raised = IF handler_written THEN @ ELSE @ \cup {gas_type},
                                 !.write_failed = TRUE]
    /\ UNCHANGED export_tasks
    /\ ExportIdle
    /\ UNCHANGED call

NextExport ==
    \/ ExportStarts
    \/ ExportFailsBeforeStart
    \/ ExportFailsAfterStart

SpecExport == InitExport /\ [][NextExport]_vars

\* The records of export_tasks are those of the started tasks, in start
\* order, each with its task id and status STARTED.
RecordsMatchStarted ==
    /\ Len(export_tasks) = Len(drive_exports)
    /\ \A k \in DOMAIN export_tasks :
          /\ k \in DOMAIN drive_exports
          /\ export_tasks[k].gas_type = drive_exports[k].description
          /\ export_tasks[k].task_id = drive_exports[k].id
          /\ export_tasks[k].task_status = "STARTED"

\* Every export made so far that left no record left an export_failed
\* info.
FailuresLeftInfo ==
    \A k \in 1..(result.i - 1) :
        LET gas_type == call.queue[k]
        IN  (\A j \in DOMAIN export_tasks : export_tasks[j].gas_type # gas_type)
            => /\ gas_type \in DOMAIN export_info
               /\ "status" \in DOMAIN export_info[gas_type]
               /\ export_info[gas_type].status = "export_failed"

\* C30: export_tasks holds one record (task id, status STARTED) per
\* started export task, in start order, and none for a failed export; a
\* failed export leaves an export_failed info and no exception reaches
\* the caller.
C30_ExportRecords ==
    result.fn = "_export_emission_map" =>
        /\ RecordsMatchStarted
        /\ FailuresLeftInfo
        /\ result.raised = {}

\* The same where every info file could be written: the claim holds for
\* exports that fail before their task is started.
ExportRecordsWhenWritable ==
    (result.fn = "_export_emission_map" /\ ~result.write_failed) =>
        /\ RecordsMatchStarted
        /\ FailuresLeftInfo
        /\ result.raised = {}

====
